---- MODULE Spec2Model ----
(***************************************************************************)
(* Keycloak admin-token cache and retrying request executor                *)
(* (src/app/core/auth/keycloak_admin.py, class KeycloakAdmin).             *)
(*                                                                         *)
(* KeycloakAdmin is a process-wide singleton.  _get_admin_token is wrapped *)
(* in alru_cache(maxsize=1): one cache slot that holds the future of the   *)
(* client-credentials fetch.  _make_request_with_retry runs a for loop of  *)
(* max_retries iterations; every await in it is a step of the model.       *)
(***************************************************************************)
EXTENDS Integers, Sequences, FiniteSets, TLC

\* ---------------------------------------------------------------- bounds
NumTasks == 2          \* cooperative tasks that may call into the singleton
MaxTokens == 4         \* access tokens the token endpoint hands out in a run

Tasks == 1..NumTasks

\* ------------------------------------------------------ program constants
max_retries_alt == 3 + 1
max_retries == 3       \* KeycloakAdmin.__init__: self.max_retries = 3
retry_delay == 1       \* KeycloakAdmin.__init__: self.retry_delay = 1 (seconds)

\* ------------------------------------------------- inputs (the upstreams)
\* Status lines the management endpoint may answer with.
MgmtStatuses == {200, 201, 202, 204, 400, 401, 403, 404, 409, 500, 503}
\* Error status lines the token endpoint may answer with (200 is the grant).
TokenErrStatuses == {400, 401, 403, 404, 500}
\* Exceptions aiohttp raises when no response arrives.  TimeoutError is what
\* the ClientTimeout(total=10) deadline raises (asyncio.TimeoutError).
NetExceptions == {"ClientConnectorError", "ServerDisconnectedError", "TimeoutError"}

\* The aiohttp exception hierarchy the except clauses dispatch on.
ExcParent(x) ==
    CASE x = "ClientResponseError"     -> "ClientError"
      [] x = "ClientConnectionError"   -> "ClientError"
      [] x = "ClientConnectorError"    -> "ClientConnectionError"
      [] x = "ServerDisconnectedError" -> "ClientConnectionError"
      [] x = "ClientError"             -> "Exception"
      [] x = "TimeoutError"            -> "Exception"
      [] x = "TypeError"               -> "Exception"
      [] x = "InvalidTokenError"       -> "PyJWTError"
      [] x = "DecodeError"             -> "InvalidTokenError"
      [] x = "InvalidSignatureError"   -> "DecodeError"
      [] x = "ExpiredSignatureError"   -> "InvalidTokenError"
      [] x = "InvalidAudienceError"    -> "InvalidTokenError"
      [] x = "InvalidIssuerError"      -> "InvalidTokenError"
      [] x = "PyJWTError"              -> "Exception"
      [] x = "AuthServerUnavailableException" -> "AuthException"
      [] x = "AuthTokenExpiredException"      -> "AuthException"
      [] x = "AuthForbiddenException"         -> "AuthException"
      [] x = "AuthInvalidSessionException"    -> "AuthException"
      [] x = "AuthInvalidAudienceException"   -> "AuthException"
      [] x = "AuthException"           -> "HTTPException"
      [] x = "HTTPException"           -> "Exception"
      [] OTHER                         -> "Exception"

RECURSIVE IsInstance(_, _)
IsInstance(x, cls) ==
    IF x = cls THEN TRUE
    ELSE IF x = "Exception" THEN FALSE
    ELSE IsInstance(ExcParent(x), cls)

\* ----------------------------------------------------------------- state
VARIABLES
    cache,      \* the alru_cache slot of _get_admin_token
    issued,     \* number of access tokens the token endpoint has issued
    fetching,   \* fetching[t]: t's token-endpoint request is in flight
    active,     \* the tasks that run in this specification
    pc,         \* pc[t]: where task t stands
    op,         \* op[t]: the operation t is running
    attempt,    \* attempt[t]: loop variable of _make_request_with_retry
    waitOn,     \* waitOn[t]: owner of the fetch whose future t awaits
    delivered,  \* delivered[t]: what the awaited future resolved to
    log,        \* log[t]: what t's current call did, in order
    cacheAtExc, \* cacheAtExc[t]: the cache when t's last response arrived
    execOut,    \* execOut[t]: how _make_request_with_retry ended
    opOut,      \* opOut[t]: how the operation ended for its caller
    sinceEmpty, \* token-endpoint requests since the cache was last emptied
    returned,   \* tokens _get_admin_token returned since it was last emptied
    nret,       \* number of such returns, counted up to 2
    evicted     \* tokens that were cached when a cache_clear ran

\* KeycloakJWTHandler (src/app/core/auth/keycloak_jwt_handler.py)
VARIABLES
    upstream,     \* key ids the JWKS endpoint currently publishes
    jcache,       \* the alru_cache slot of _get_public_keys
    jfetching,    \* jfetching[t]: t's JWKS request is in flight
    lastFetched,  \* the key set of the latest successful JWKS fetch
    vactive,      \* the tasks that call verify_token in this specification
    vpc,          \* vpc[t]: where t stands in verify_token
    vtok,         \* vtok[t]: the token t presented
    vroles,       \* vroles[t]: the roles argument
    vkeys,        \* vkeys[t]: the local public_keys
    vwait,        \* vwait[t]: owner of the JWKS fetch t awaits
    vlog,         \* vlog[t]: what t's current verify_token call did, in order
    jcacheAtCall, \* jcacheAtCall[t]: the key cache when t's call began
    vOut,         \* vOut[t]: how verify_token ended
    handlers,     \* the KeycloakJWTHandler instances that are called
    vinst,        \* vinst[t]: the instance t's call is made on
    kidServed     \* kidServed[t]: the JWKS endpoint has served the kid of t's
                  \* token at every moment of the call so far

\* The operations built on the executor (get_user_info, update_user_info,
\* assign_role_to_user)
VARIABLES
    arg,          \* arg[t]: the arguments of t's operation
    oplog         \* oplog[t]: the executor calls t's operation has finished

\* The async_lru release that is installed (the repository pins none); the
\* releases differ in what a fetch that raised leaves in the cache.
VARIABLES
    async_lru

adminVars == <<cache, issued, fetching, active, pc, op, attempt, waitOn, delivered,
               log, cacheAtExc, execOut, opOut, sinceEmpty, returned, nret, evicted,
               arg, oplog>>

jwtVars == <<upstream, jcache, jfetching, lastFetched, vactive, vpc, vtok, vroles,
             vkeys, vwait, vlog, jcacheAtCall, vOut, handlers, vinst, kidServed>>

vars == <<cache, issued, fetching, active, pc, op, attempt, waitOn, delivered,
          log, cacheAtExc, execOut, opOut, sinceEmpty, returned, nret, evicted,
          upstream, jcache, jfetching, lastFetched, vactive, vpc, vtok, vroles,
          vkeys, vwait, vlog, jcacheAtCall, vOut, arg, oplog,
          handlers, vinst, kidServed, async_lru>>

\* ----------------------------------------------------------- cache slot
NoEntry == [st |-> "empty", tok |-> 0, owner |-> 0, exc |-> "", status |-> 0]
Pending(o) == [st |-> "pending", tok |-> 0, owner |-> o, exc |-> "", status |-> 0]
CachedUnissued(k) ==
    [st |-> "done", tok |-> k + 1, owner |-> 0, exc |-> "", status |-> 0]
Cached(k) == [st |-> "done", tok |-> k, owner |-> 0, exc |-> "", status |-> 0]
\* The future of a fetch that raised x (status s), kept in the slot.
Failed(x, s) == [st |-> "failed", tok |-> 0, owner |-> 0, exc |-> x, status |-> s]

\* ----------------------------------------------------------- log events
Ev(e, tok, src, status, exc, delay) ==
    [e |-> e, tok |-> tok, src |-> src, status |-> status, exc |-> exc, delay |-> delay]
EvHit(k) == Ev("hit", k, "", 0, "", 0)
EvHitExc == Ev("hit_exc", 0, "", 0, "", 0)
EvGrant == Ev("grant", 0, "", 0, "", 0)
EvJoin == Ev("join", 0, "", 0, "", 0)
EvToken(k) == Ev("token", k, "", 0, "", 0)
EvSend(k) == Ev("send", k, "", 0, "", 0)
EvResp(src, status, exc) == Ev("resp", 0, src, status, exc, 0)
EvClear == Ev("clear", 0, "", 0, "", 0)
EvSleep(d) == Ev("sleep", 0, "", 0, "", d)

\* ------------------------------------------------------------- outcomes
\* kind: "return" or "raise"; for a raise, exc is the exception class, status and
\* detail the HTTPException fields, www whether WWW-Authenticate: Bearer is set,
\* error_id whether a uuid4 correlation id prefixes the detail.
NoOutcome == [kind |-> "none", exc |-> "", status |-> 0, detail |-> "",
              data |-> "", tok |-> 0, error_id |-> FALSE, www |-> FALSE]
Returned(status, data) ==
    [kind |-> "return", exc |-> "", status |-> status, detail |-> "",
     data |-> data, tok |-> 0, error_id |-> FALSE, www |-> FALSE]
ReturnedToken(k) ==
    [kind |-> "return", exc |-> "", status |-> 0, detail |-> "",
     data |-> "access_token", tok |-> k, error_id |-> FALSE, www |-> FALSE]
Raised(exc, status, detail, www) ==
    [kind |-> "raise", exc |-> exc, status |-> status, detail |-> detail,
     data |-> "", tok |-> 0, error_id |-> FALSE, www |-> www]

\* auth_exceptions.py
AuthException(status, detail) == Raised("AuthException", status, detail, FALSE)
AuthServerUnavailableException(detail) ==
    Raised("AuthServerUnavailableException", 503, detail, FALSE)
AuthTokenExpiredException ==
    Raised("AuthTokenExpiredException", 401, "Token has expired", TRUE)
AuthForbiddenException(detail) ==
    Raised("AuthForbiddenException", 403, detail, FALSE)
AuthInvalidSessionNoHeader(detail) ==
    Raised("AuthInvalidSessionException", 401, detail, FALSE)
AuthInvalidSessionException(detail) ==
    Raised("AuthInvalidSessionException", 401, detail, TRUE)
AuthInvalidAudienceException(detail) ==
    Raised("AuthInvalidAudienceException", 401, detail, TRUE)
IsAuthException(x) ==
    x \in {"AuthException", "AuthServerUnavailableException",
           "AuthTokenExpiredException", "AuthForbiddenException",
           "AuthInvalidSessionException", "AuthInvalidAudienceException"}

\* What a future resolved to: a token, or the exception the fetch raised.
NoDelivery == [ok |-> FALSE, tok |-> 0, exc |-> "", status |-> 0]
GotToken(k) == [ok |-> TRUE, tok |-> k, exc |-> "", status |-> 0]
GotExc(x, s) == [ok |-> FALSE, tok |-> 0, exc |-> x, status |-> s]

RECURSIVE Pow2(_)
Pow2(n) == IF n = 0 THEN 1 ELSE 2 * Pow2(n - 1)

Min(a, b) == IF a < b THEN a ELSE b

\* ------------------------------------------- _make_request_with_retry
\* response.raise_for_status(): aiohttp raises ClientResponseError for >= 400.
raise_for_status(status) == status >= 400

\* `attempt < self.max_retries - 1`
AttemptsRemainOffByOne(a) == a < max_retries
AttemptsRemainNever(a) == FALSE
AttemptsRemain(a) == a < max_retries - 1

\* The classes named by the second except clause,
\* `except (aiohttp.ClientConnectionError, aiohttp.ClientTimeout)`.
\* aiohttp.ClientTimeout is the timeout configuration class (the very file
\* builds one with ClientTimeout(total=10)), not an exception class.
ConnClauseClasses == {"ClientConnectionError", "ClientTimeout"}
IsExceptionClass(c) == c # "ClientTimeout"

\* Which except clause of the try statement takes an exception of class x.
\* Python evaluates the clauses in order; evaluating a clause that names a
\* class not derived from BaseException raises TypeError in place of the match.
ExceptClause(x) ==
    IF IsInstance(x, "ClientResponseError") THEN "response"
    ELSE IF \E c \in ConnClauseClasses : ~IsExceptionClass(c) THEN "type_error"
    ELSE IF \E c \in ConnClauseClasses : IsInstance(x, c) THEN "connection"
    ELSE IF IsInstance(x, "ClientError") THEN "client_error"
    ELSE "unhandled"

\* Variants of the ClientResponseError handler: 404 taken by the 401/403
\* branch; 5xx retried with backoff; other statuses raised as a generic 500.
OnResponseErrorRetry404(status, a) ==
    IF status \in {401, 403, 404} THEN
        IF AttemptsRemain(a)
        THEN [act |-> "clear_continue", out |-> NoOutcome, delay |-> 0]
        ELSE [act |-> "raise", out |-> AuthTokenExpiredException, delay |-> 0]
    ELSE IF status >= 500 THEN
        [act |-> "raise",
         out |-> AuthServerUnavailableException("Authentication server unavailable"),
         delay |-> 0]
    ELSE
        [act |-> "raise", out |-> AuthException(status, "Keycloak error"), delay |-> 0]

OnResponseErrorRetry5xx(status, a) ==
    IF status \in {401, 403} THEN
        IF AttemptsRemain(a)
        THEN [act |-> "clear_continue", out |-> NoOutcome, delay |-> 0]
        ELSE [act |-> "raise", out |-> AuthTokenExpiredException, delay |-> 0]
    ELSE IF status = 404 THEN
        [act |-> "raise", out |-> AuthException(404, "Resource not found"), delay |-> 0]
    ELSE IF status >= 500 THEN
        IF AttemptsRemain(a)
        THEN [act |-> "sleep_continue", out |-> NoOutcome, delay |-> retry_delay * Pow2(a)]
        ELSE [act |-> "break", out |-> NoOutcome, delay |-> 0]
    ELSE
        [act |-> "raise", out |-> AuthException(status, "Keycloak error"), delay |-> 0]

OnResponseErrorGeneric500(status, a) ==
    IF status \in {401, 403} THEN
        IF AttemptsRemain(a)
        THEN [act |-> "clear_continue", out |-> NoOutcome, delay |-> 0]
        ELSE [act |-> "raise", out |-> AuthTokenExpiredException, delay |-> 0]
    ELSE IF status = 404 THEN
        [act |-> "raise", out |-> AuthException(404, "Resource not found"), delay |-> 0]
    ELSE IF status >= 500 THEN
        [act |-> "raise",
         out |-> AuthServerUnavailableException("Authentication server unavailable"),
         delay |-> 0]
    ELSE
        [act |-> "raise", out |-> AuthException(500, "Unexpected error"), delay |-> 0]

\* The body of `except aiohttp.ClientResponseError as e`.
\* act: "clear_continue" | "raise".
OnResponseError(status, a) ==
    IF status \in {401, 403} THEN
        IF AttemptsRemain(a)
        THEN [act |-> "clear_continue", out |-> NoOutcome, delay |-> 0]
        ELSE [act |-> "raise", out |-> AuthTokenExpiredException, delay |-> 0]
    ELSE IF status = 404 THEN
        [act |-> "raise", out |-> AuthException(404, "Resource not found"), delay |-> 0]
    ELSE IF status >= 500 THEN
        [act |-> "raise",
         out |-> AuthServerUnavailableException("Authentication server unavailable"),
         delay |-> 0]
    ELSE
        [act |-> "raise", out |-> AuthException(status, "Keycloak error"), delay |-> 0]

\* The body of `except (ClientConnectionError, ClientTimeout) as e`.
OnConnectionError(a) ==
    IF AttemptsRemain(a)
    THEN [act |-> "sleep_continue", out |-> NoOutcome, delay |-> retry_delay * Pow2(a)]
    ELSE [act |-> "break", out |-> NoOutcome, delay |-> 0]

\* What the try statement does with exception x (status s) on attempt a.
HandleException(x, s, a) ==
    CASE ExceptClause(x) = "response"     -> OnResponseError(s, a)
      [] ExceptClause(x) = "type_error"   ->
            [act |-> "raise", out |-> Raised("TypeError", 0, "", FALSE), delay |-> 0]
      [] ExceptClause(x) = "connection"   -> OnConnectionError(a)
      [] ExceptClause(x) = "client_error" ->
            [act |-> "raise",
             out |-> AuthServerUnavailableException("Connection error"), delay |-> 0]
      [] OTHER -> [act |-> "raise", out |-> Raised(x, s, "", FALSE), delay |-> 0]

\* Falling out of the for loop: `raise AuthServerUnavailableException("All retry
\* attempts failed")`.
AllRetriesFailed == AuthServerUnavailableException("All retry attempts failed")

\* get_user_info: return resp['data']; `except AuthException: raise`;
\* `except Exception` -> AuthException(500, "Unexpected error", error_id=uuid4).
get_user_info(eo) ==
    IF eo.kind = "return" THEN eo
    ELSE IF IsAuthException(eo.exc) THEN eo
    ELSE [AuthException(500, "Unexpected error") EXCEPT !.error_id = TRUE]

\* ------------------------------------------------- KeycloakJWTHandler
\* Key ids, role names and client ids the tokens and the JWKS endpoint use.
Kids == {"k1", "k2"}
Roles == {"user", "admin"}
Clients == {"c1", "c2"}
\* What jwt.decode may find wrong with a token whose key is resolved.
Flaws == {"sig", "exp", "iss", "aud"}

\* The alru_cache slot of _get_public_keys: the decorated function is a class
\* attribute, so the one slot (maxsize=1) is shared by all instances and its
\* entry is keyed by the instance (self) the call was made on.
Handlers == {"security", "auth_service"}
NoKeys == [st |-> "empty", keys |-> {}, owner |-> 0, inst |-> "", exc |-> ""]
KeysPending(o, h) ==
    [st |-> "pending", keys |-> {}, owner |-> o, inst |-> h, exc |-> ""]
KeysCached(K, h) == [st |-> "done", keys |-> K, owner |-> 0, inst |-> h, exc |-> ""]
\* The future of a fetch of instance h that raised x, kept in the slot.
KeysFailed(h, x) == [st |-> "failed", keys |-> {}, owner |-> 0, inst |-> h, exc |-> x]

\* A presented token: whether its header decodes, its kid ("" when the header
\* has none), and, once jwt.decode has read it, what is wrong with it and the
\* roles of its payload (realm_access.roles, resource_access[c].roles);
\* wellformed is FALSE when realm_access or resource_access is not an object.
Token(decodable, kid) ==
    [decodable |-> decodable, kid |-> kid, read |-> FALSE, flaws |-> {},
     realm |-> {}, clients |-> [c \in Clients |-> {}], wellformed |-> TRUE]
NoToken == Token(TRUE, "")

\* The roles argument of verify_token: None, or a list.
RolesArg(given, list) == [given |-> given, list |-> list]
RoleArgs == {RolesArg(FALSE, {}), RolesArg(TRUE, {}), RolesArg(TRUE, {"admin"}),
             RolesArg(TRUE, {"user", "admin"})}

\* Events of a verify_token call.
JEv(e, keys) == [e |-> e, keys |-> keys]
JGet == JEv("jwks_get", {})
JHit(K) == JEv("hit", K)
JHitExc == JEv("hit_exc", {})
JJoin == JEv("join", {})
JKeys(K) == JEv("jwks_keys", K)
JError == JEv("jwks_error", {})
JClear == JEv("cache_clear", {})

\* How verify_token ended: the outcome and the role names its detail lists.
VOut(out, named) == [out |-> out, named |-> named]
NoVOut == VOut(NoOutcome, {})

VerifierIdleOn(A, H) ==
    /\ vactive = A
    /\ handlers = H
    /\ vinst = [t \in Tasks |-> "security"]
    /\ kidServed = [t \in Tasks |-> FALSE]
    /\ upstream = {"k1"}
    /\ jcache = NoKeys
    /\ jfetching = [t \in Tasks |-> FALSE]
    /\ lastFetched = [any |-> FALSE, keys |-> {}, served |-> {},
                      by |-> [h \in Handlers |-> {}]]
    /\ vpc = [t \in Tasks |-> "idle"]
    /\ vtok = [t \in Tasks |-> NoToken]
    /\ vroles = [t \in Tasks |-> RolesArg(FALSE, {})]
    /\ vkeys = [t \in Tasks |-> {}]
    /\ vwait = [t \in Tasks |-> 0]
    /\ vlog = [t \in Tasks |-> << >>]
    /\ jcacheAtCall = [t \in Tasks |-> NoKeys]
    /\ vOut = [t \in Tasks |-> NoVOut]
VerifierIdle(A) == VerifierIdleOn(A, {"security"})

\* ------------------------------------------- operations on the executor
\* Arguments: client (assign_role_to_user: client_id is given), fields (a name
\* or the email is given), phone (phone_number is given); attrs says whether
\* the user stored in Keycloak has attributes.
OpArg(client, fields, phone, attrs) ==
    [client |-> client, fields |-> fields, phone |-> phone, attrs |-> attrs]
NoArg == OpArg(FALSE, FALSE, FALSE, FALSE)
ExecutorOps == {"get_user_info", "update_user_info", "assign_role_to_user"}
TwoStepOps == {"update_user_info", "assign_role_to_user"}
ArgsOf(o) ==
    IF o = "assign_role_to_user" THEN {OpArg(c, FALSE, FALSE, FALSE) : c \in BOOLEAN}
    ELSE IF o = "update_user_info"
         THEN {OpArg(FALSE, f, p, a) : f \in BOOLEAN, p \in BOOLEAN, a \in BOOLEAN}
    ELSE {NoArg}

\* One finished executor call of an operation: its request and how it ended.
Req(method, url, body) == [method |-> method, url |-> url, body |-> body]
ExecCall(req, out) == [req |-> req, out |-> out]

\* The request of the executor call that follows the finished calls `calls`.
RequestOf(o, a, calls) ==
    IF o = "assign_role_to_user" THEN
        IF calls = << >>
        THEN Req("GET", IF a.client THEN "client_role_detail_url" ELSE "realm_role_url",
                 "")
        ELSE Req("POST",
                 IF a.client THEN "client_role_mapping_url"
                 ELSE "realm_role_mapping_url",
                 calls[1].out.data)
    ELSE IF o = "update_user_info" /\ calls # << >> THEN Req("PUT", "user_url", "payload")
    ELSE Req("GET", "user_url", "")

\* `except AuthException: raise` / `except Exception:` of the three operations.
OuterBoundaryUntyped(eo) == eo
OuterBoundary(eo) ==
    IF IsAuthException(eo.exc) THEN eo
    ELSE [AuthException(500, "Unexpected error") EXCEPT !.error_id = TRUE]
ReturnedTrue == Returned(0, "True")
OpGoesOn == [again |-> TRUE, out |-> NoOutcome]
OpEnds(out) == [again |-> FALSE, out |-> out]

\* update_user_info after an executor call ended with eo: GET the user, build
\* the payload (user.get on a body that is not JSON raises AttributeError),
\* return True when the payload is empty, else PUT and check the status.
update_user_info(a, calls, eo) ==
    IF eo.kind = "raise" THEN OpEnds(OuterBoundary(eo))
    ELSE IF calls = << >> THEN
        IF eo.data = "None"
        THEN OpEnds(OuterBoundary(Raised("AttributeError", 0, "", FALSE)))
        ELSE IF ~(a.fields \/ a.phone \/ a.attrs) THEN OpEnds(ReturnedTrue)
        ELSE OpGoesOn
    ELSE IF eo.status \notin {200, 204}
         THEN OpEnds(OuterBoundary(AuthException(eo.status, "Failed to update user")))
    ELSE OpEnds(ReturnedTrue)

\* assign_role_to_user after an executor call ended with eo: GET the role,
\* then POST [role] to the mapping URL and check the status.
assign_role_to_userPostAnyway(a, calls, eo) ==
    IF calls = << >> THEN OpGoesOn
    ELSE IF eo.kind = "raise" THEN OpEnds(OuterBoundary(eo))
    ELSE OpEnds(ReturnedTrue)
assign_role_to_user(a, calls, eo) ==
    IF eo.kind = "raise" THEN OpEnds(OuterBoundary(eo))
    ELSE IF calls = << >> THEN OpGoesOn
    ELSE IF eo.status \notin {200, 204}
         THEN OpEnds(OuterBoundary(AuthException(eo.status, "Failed to assign role")))
    ELSE OpEnds(ReturnedTrue)

OpAfter(o, a, calls, eo) ==
    IF o = "update_user_info" THEN update_user_info(a, calls, eo)
    ELSE IF o = "assign_role_to_user" THEN assign_role_to_user(a, calls, eo)
    ELSE OpEnds(get_user_info(eo))

\* Where the end of an executor call leaves the caller: get_user_info ends
\* with it, the two-step operations go on in their own body.
ExecEndPc(o) == IF o \in TwoStepOps THEN "exec_done" ELSE "done"
ExecEndOut(o, prev, out) ==
    IF o \in TwoStepOps THEN prev ELSE get_user_info(out)

\* ------------------- the earlier copy of the class (core/keycloak_admin.py)
\* src/app/core/keycloak_admin.py is an earlier copy of KeycloakAdmin that no
\* module imports. Its token fetch, its cache and the loop of its executor are
\* those of the current class; it raises AuthException(error_code) of
\* app/shared/auth_exceptions.py, and it has these coroutines.
LegacyOps == {"add_user_attribute", "update_user_info", "assign_role_to_user",
              "revoke_role_from_user", "delete_user_from_keycloak", "add_role"}

\* app/shared/auth_exceptions.py: the error codes the earlier copy raises.
ErrorCode(status_code, message) == [status_code |-> status_code, message |-> message]
AUTH_SERVER_UNAVAILABLE ==
    ErrorCode(503, "Authentication server is currently unavailable. Please try again later.")
AUTH_TOKEN_EXPIRED == ErrorCode(401, "Your session has expired. Please log in again.")
USER_NOT_FOUND == ErrorCode(404, "User not found.")
ROLE_REVOCATION_FAILED == ErrorCode(500, "Failed to revoke role from user.")
UNEXPECTED_ERROR ==
    ErrorCode(500, "An unexpected error occurred. Please try again later.")
\* AuthException(error_code, error_id=...): the status and the message of the
\* code, the error id appended to the message when one is given; no headers.
LegacyAuthException(error_code, error_id) ==
    [Raised("AuthException", error_code.status_code, error_code.message, FALSE)
        EXCEPT !.error_id = error_id]

\* Arguments of the earlier copy's coroutines: those of OpArg, and user: the
\* role name, the client id, the realm or the server address given has "user"
\* in it (a role named "user", say), so that a role URL built from it has.
LegacyArgsOf(o) ==
    {[client |-> c, fields |-> f, phone |-> p, attrs |-> a, user |-> u] :
        c \in IF o \in {"assign_role_to_user", "add_role", "revoke_role_from_user"}
              THEN BOOLEAN ELSE {FALSE},
        f \in IF o = "update_user_info" THEN BOOLEAN ELSE {FALSE},
        p \in IF o = "update_user_info" THEN BOOLEAN ELSE {FALSE},
        a \in IF o = "update_user_info" THEN BOOLEAN ELSE {FALSE},
        u \in IF o \in {"assign_role_to_user", "add_role"} THEN BOOLEAN ELSE {FALSE}}

\* KeycloakConfig.client_role_mapping_url(user_id, client_id): an f-string,
\* .../users/{user_id}/role-mappings/clients/{client_id}; with client_id None
\* the text ends in /clients/None.
client_role_mapping_url(given) ==
    IF given THEN "client_role_mapping_url" ELSE "client_role_mapping_url(client_id=None)"

\* The request of the executor call that follows the finished calls `calls`
\* of a coroutine of the earlier copy.
LegacyRequestOf(o, a, calls) ==
    IF o = "add_user_attribute" THEN
        IF calls = << >> THEN Req("GET", "user_url", "") ELSE Req("PUT", "user_url", "user")
    ELSE IF o = "update_user_info" THEN
        IF calls = << >> THEN Req("GET", "user_url", "")
        ELSE Req("PUT", "user_url", "payload")
    ELSE IF o = "assign_role_to_user" THEN
        IF calls = << >>
        THEN Req("GET", IF a.client THEN "client_role_detail_url" ELSE "realm_role_url",
                 "")
        ELSE Req("POST",
                 IF a.client THEN client_role_mapping_url(TRUE)
                 ELSE "realm_role_mapping_url",
                 calls[1].out.data)
    ELSE IF o = "revoke_role_from_user"
    THEN Req("DELETE", client_role_mapping_url(a.client), "role_id")
    ELSE IF o = "delete_user_from_keycloak" THEN Req("DELETE", "user_url", "")
    ELSE Req("POST", IF a.client THEN "client_roles_url" ELSE "realm_roles_url",
             "payload")

\* `'user' in url.lower()`: the user URL and the role-mapping URLs have /users/
\* in their path; a role URL has "user" in it only through the names it is
\* built from.
user_in_url(url, a) ==
    \/ url \in {"user_url", "realm_role_mapping_url", "client_role_mapping_url",
                "client_role_mapping_url(client_id=None)"}
    \/ a.user

\* The body of `except aiohttp.ClientResponseError as e` of the earlier copy.
LegacyOnResponseError(status, a, in_url) ==
    IF status \in {401, 403} THEN
        IF AttemptsRemain(a)
        THEN [act |-> "clear_continue", out |-> NoOutcome, delay |-> 0]
        ELSE [act |-> "raise", out |-> LegacyAuthException(AUTH_TOKEN_EXPIRED, FALSE),
              delay |-> 0]
    ELSE IF status = 404 THEN
        [act |-> "raise",
         out |-> LegacyAuthException(IF in_url THEN USER_NOT_FOUND ELSE UNEXPECTED_ERROR,
                                     FALSE),
         delay |-> 0]
    ELSE IF status >= 500 THEN
        [act |-> "raise", out |-> LegacyAuthException(AUTH_SERVER_UNAVAILABLE, FALSE),
         delay |-> 0]
    ELSE
        [act |-> "raise", out |-> LegacyAuthException(UNEXPECTED_ERROR, FALSE),
         delay |-> 0]

\* What the try statement of the earlier copy does with exception x (status
\* s) on attempt a: its except clauses name the classes of the current one,
\* aiohttp.ClientTimeout among them.
LegacyHandleException(x, s, a, in_url) ==
    CASE ExceptClause(x) = "response"     -> LegacyOnResponseError(s, a, in_url)
      [] ExceptClause(x) = "type_error"   ->
            [act |-> "raise", out |-> Raised("TypeError", 0, "", FALSE), delay |-> 0]
      [] ExceptClause(x) = "connection"   -> OnConnectionError(a)
      [] ExceptClause(x) = "client_error" ->
            [act |-> "raise", out |-> LegacyAuthException(AUTH_SERVER_UNAVAILABLE, FALSE),
             delay |-> 0]
      [] OTHER -> [act |-> "raise", out |-> Raised(x, s, "", FALSE), delay |-> 0]


\* `except AuthException: raise` / `except Exception` ->
\* AuthException(UNEXPECTED_ERROR, error_id=uuid1) of every coroutine.
LegacyOuterBoundary(eo) ==
    IF IsInstance(eo.exc, "AuthException") THEN eo
    ELSE LegacyAuthException(UNEXPECTED_ERROR, TRUE)

\* add_user_attribute after an executor call ended with eo: GET the user, set
\* the attribute (user.get on a body that is not JSON raises AttributeError),
\* PUT the user and check the status.
add_user_attribute(a, calls, eo) ==
    IF eo.kind = "raise" THEN OpEnds(LegacyOuterBoundary(eo))
    ELSE IF calls = << >> THEN
        IF eo.data = "None"
        THEN OpEnds(LegacyOuterBoundary(Raised("AttributeError", 0, "", FALSE)))
        ELSE OpGoesOn
    ELSE IF eo.status # 204
         THEN OpEnds(LegacyOuterBoundary(LegacyAuthException(UNEXPECTED_ERROR, FALSE)))
    ELSE OpEnds(ReturnedTrue)

\* update_user_info of the earlier copy: as the current one, the PUT checked
\* with `!= 204`.
Legacy_update_user_info(a, calls, eo) ==
    IF eo.kind = "raise" THEN OpEnds(LegacyOuterBoundary(eo))
    ELSE IF calls = << >> THEN
        IF eo.data = "None"
        THEN OpEnds(LegacyOuterBoundary(Raised("AttributeError", 0, "", FALSE)))
        ELSE IF ~(a.fields \/ a.phone \/ a.attrs) THEN OpEnds(ReturnedTrue)
        ELSE OpGoesOn
    ELSE IF eo.status # 204
         THEN OpEnds(LegacyOuterBoundary(LegacyAuthException(UNEXPECTED_ERROR, FALSE)))
    ELSE OpEnds(ReturnedTrue)

\* assign_role_to_user of the earlier copy: GET the role, POST [role] to the
\* mapping URL and check the status.
Legacy_assign_role_to_user(a, calls, eo) ==
    IF eo.kind = "raise" THEN OpEnds(LegacyOuterBoundary(eo))
    ELSE IF calls = << >> THEN OpGoesOn
    ELSE IF eo.status \notin {200, 204}
         THEN OpEnds(LegacyOuterBoundary(LegacyAuthException(UNEXPECTED_ERROR, FALSE)))
    ELSE OpEnds(ReturnedTrue)

\* revoke_role_from_user: one DELETE, then the status check.
revoke_role_from_user(a, calls, eo) ==
    IF eo.kind = "raise" THEN OpEnds(LegacyOuterBoundary(eo))
    ELSE IF eo.status \notin {200, 204}
         THEN OpEnds(LegacyOuterBoundary(LegacyAuthException(ROLE_REVOCATION_FAILED,
                                                             FALSE)))
    ELSE OpEnds(ReturnedTrue)

\* delete_user_from_keycloak: one DELETE of the user URL, then the status check.
delete_user_from_keycloak(a, calls, eo) ==
    IF eo.kind = "raise" THEN OpEnds(LegacyOuterBoundary(eo))
    ELSE IF eo.status \notin {200, 204}
         THEN OpEnds(LegacyOuterBoundary(LegacyAuthException(UNEXPECTED_ERROR, FALSE)))
    ELSE OpEnds(ReturnedTrue)

\* add_role: one POST to the roles URL of the realm or of the client, checked
\* with `not in (201, 204)`.
add_role(a, calls, eo) ==
    IF eo.kind = "raise" THEN OpEnds(LegacyOuterBoundary(eo))
    ELSE IF eo.status \notin {201, 204}
         THEN OpEnds(LegacyOuterBoundary(LegacyAuthException(UNEXPECTED_ERROR, FALSE)))
    ELSE OpEnds(ReturnedTrue)

LegacyOpAfter(o, a, calls, eo) ==
    IF o = "add_user_attribute" THEN add_user_attribute(a, calls, eo)
    ELSE IF o = "update_user_info" THEN Legacy_update_user_info(a, calls, eo)
    ELSE IF o = "assign_role_to_user" THEN Legacy_assign_role_to_user(a, calls, eo)
    ELSE IF o = "revoke_role_from_user" THEN revoke_role_from_user(a, calls, eo)
    ELSE IF o = "delete_user_from_keycloak" THEN delete_user_from_keycloak(a, calls, eo)
    ELSE add_role(a, calls, eo)

\* ---------------------------------------------------------------- Init
\* Any of the async_lru releases may be the one installed.
\*   "1.x"   : before 2.0 alru_cache has cache_exceptions=True by default: the
\*             failed future stays in the cache and every later call raises it
\*             again, without a request, until cache_clear();
\*   "2.0"   : 2.0 to 2.0.4 never serve a failure: the next call fetches anew;
\*   "2.0.5" : from 2.0.5 on the done callback of a fetch that raised does
\*             cache.pop(key), which drops whatever entry the key holds then.
AsyncLruReleases == {"1.x", "2.0", "2.0.5"}
Installed == async_lru \in AsyncLruReleases
cache_exceptions == async_lru = "1.x"
pops_key == async_lru = "2.0.5"

IdleTasks(A) ==
    /\ active = A
    /\ cache = NoEntry
    /\ issued = 0
    /\ fetching = [t \in Tasks |-> FALSE]
    /\ pc = [t \in Tasks |-> "idle"]
    /\ op = [t \in Tasks |-> "none"]
    /\ attempt = [t \in Tasks |-> 0]
    /\ waitOn = [t \in Tasks |-> 0]
    /\ delivered = [t \in Tasks |-> NoDelivery]
    /\ log = [t \in Tasks |-> << >>]
    /\ cacheAtExc = [t \in Tasks |-> NoEntry]
    /\ execOut = [t \in Tasks |-> NoOutcome]
    /\ opOut = [t \in Tasks |-> NoOutcome]
    /\ sinceEmpty = 0
    /\ returned = {}
    /\ nret = 0
    /\ evicted = {}
    /\ arg = [t \in Tasks |-> NoArg]
    /\ oplog = [t \in Tasks |-> << >>]

\* One caller at a time: the calls of the singleton run one after another.
Init == IdleTasks({1}) /\ VerifierIdle({}) /\ Installed

\* ------------------------------------------------------------- actions
CanCall(t) == t \in active /\ pc[t] \in {"idle", "done"}

\* A caller enters get_user_info (which enters _make_request_with_retry with
\* attempt = 0) or calls _get_admin_token directly.
Call(t, o) ==
    /\ CanCall(t)
    /\ pc' = [pc EXCEPT ![t] = "get_token"]
    /\ op' = [op EXCEPT ![t] = o]
    /\ attempt' = [attempt EXCEPT ![t] = 0]
    /\ delivered' = [delivered EXCEPT ![t] = NoDelivery]
    /\ log' = [log EXCEPT ![t] = << >>]
    /\ cacheAtExc' = [cacheAtExc EXCEPT ![t] = NoEntry]
    /\ execOut' = [execOut EXCEPT ![t] = NoOutcome]
    /\ opOut' = [opOut EXCEPT ![t] = NoOutcome]
    /\ UNCHANGED <<cache, issued, fetching, active, waitOn, sinceEmpty, returned, nret,
                   evicted>>
    /\ UNCHANGED jwtVars
    /\ UNCHANGED async_lru
    /\ UNCHANGED <<arg, oplog>>

\* alru_cache when the decorated coroutine raised. slot: what the cache holds
\* now; mine: the entry of the fetch that raised; sameKey: the cache holds an
\* entry under the key of that fetch. Where the key is popped the entry goes,
\* also when another fetch put it there since; otherwise only the entry of
\* this fetch changes: to the failed future where exceptions are cached, to
\* nothing where they are not.
AfterFailedFetch(slot, mine, sameKey, failed, empty) ==
    IF pops_key THEN (IF sameKey THEN empty ELSE slot)
    ELSE IF slot = mine THEN (IF cache_exceptions THEN failed ELSE empty)
    ELSE slot

\* The token a cache_clear drops, if one is cached.
Evictable(c) == IF c.st = "done" THEN {c.tok} ELSE {}

\* _clear_token_cache: self._get_admin_token.cache_clear(), synchronous.
ClearedCacheKept(c) == c
ClearedCacheOnlyPending(c) == IF c.st = "done" THEN c ELSE NoEntry
ClearedCache(c) == NoEntry

_clear_token_cache(t) ==
    /\ CanCall(t)
    /\ cache' = ClearedCache(cache)
    /\ sinceEmpty' = 0
    /\ returned' = {}
    /\ nret' = 0
    /\ pc' = [pc EXCEPT ![t] = "done"]
    /\ op' = [op EXCEPT ![t] = "_clear_token_cache"]
    /\ attempt' = [attempt EXCEPT ![t] = 0]
    /\ delivered' = [delivered EXCEPT ![t] = NoDelivery]
    /\ log' = [log EXCEPT ![t] = <<EvClear>>]
    /\ cacheAtExc' = [cacheAtExc EXCEPT ![t] = cache]
    /\ execOut' = [execOut EXCEPT ![t] = NoOutcome]
    /\ opOut' = [opOut EXCEPT ![t] = Returned(0, "None")]
    /\ evicted' = evicted \cup Evictable(cache)
    /\ UNCHANGED <<issued, fetching, active, waitOn>>
    /\ UNCHANGED jwtVars
    /\ UNCHANGED async_lru
    /\ UNCHANGED <<arg, oplog>>

\* alru_cache lookup: an entry (a finished, a failed or an in-flight fetch)
\* is a hit.
IsHitNever(c) == FALSE
IsHit(c) == c.st # "empty"

\* `await self._get_admin_token()` through the alru_cache wrapper: a finished
\* entry returns its token without suspending, a failed entry raises its
\* exception again without a request, an in-flight entry is awaited, a miss
\* starts the client-credentials fetch and awaits it.
_get_admin_token(t) ==
    /\ pc[t] = "get_token"
    /\ IF IsHit(cache) /\ cache.st = "done" THEN
            /\ delivered' = [delivered EXCEPT ![t] = GotToken(cache.tok)]
            /\ log' = [log EXCEPT ![t] = Append(@, EvHit(cache.tok))]
            /\ pc' = [pc EXCEPT ![t] = "resume"]
            /\ returned' = returned \cup {cache.tok}
            /\ nret' = Min(nret + 1, 2)
            /\ UNCHANGED <<cache, fetching, waitOn, sinceEmpty>>
       ELSE IF IsHit(cache) /\ cache.st = "failed" THEN
            /\ delivered' = [delivered EXCEPT ![t] = GotExc(cache.exc, cache.status)]
            /\ log' = [log EXCEPT ![t] = Append(@, EvHitExc)]
            /\ pc' = [pc EXCEPT ![t] = "resume"]
            /\ UNCHANGED <<cache, fetching, waitOn, sinceEmpty, returned, nret>>
       ELSE IF IsHit(cache) THEN
            /\ waitOn' = [waitOn EXCEPT ![t] = cache.owner]
            /\ log' = [log EXCEPT ![t] = Append(@, EvJoin)]
            /\ pc' = [pc EXCEPT ![t] = "await_token"]
            /\ UNCHANGED <<cache, fetching, delivered, sinceEmpty, returned, nret>>
       ELSE
            /\ ~fetching[t]
            /\ cache' = Pending(t)
            /\ fetching' = [fetching EXCEPT ![t] = TRUE]
            /\ waitOn' = [waitOn EXCEPT ![t] = t]
            /\ sinceEmpty' = Min(sinceEmpty + 1, 2)
            /\ log' = [log EXCEPT ![t] = Append(@, EvGrant)]
            /\ pc' = [pc EXCEPT ![t] = "await_token"]
            /\ UNCHANGED <<delivered, returned, nret>>
    /\ UNCHANGED <<issued, active, op, attempt, cacheAtExc, execOut, opOut, evicted>>
    /\ UNCHANGED jwtVars
    /\ UNCHANGED async_lru
    /\ UNCHANGED <<arg, oplog>>

Waiters(o) == {w \in Tasks : pc[w] = "await_token" /\ waitOn[w] = o}

\* The token endpoint answers o's POST with an access token: the fetch returns
\* token_data["access_token"], the future resolves, the entry (if still the
\* one of this fetch) now holds the token.
TokenEndpointGrants(o) ==
    /\ fetching[o]
    /\ issued < MaxTokens
    /\ LET k == issued + 1 IN
        /\ issued' = k
        /\ cache' = IF cache = Pending(o) THEN Cached(k) ELSE cache
        /\ delivered' = [w \in Tasks |->
                            IF w \in Waiters(o) THEN GotToken(k) ELSE delivered[w]]
        /\ log' = [w \in Tasks |->
                      IF w \in Waiters(o) THEN Append(log[w], EvToken(k)) ELSE log[w]]
        /\ returned' = IF Waiters(o) # {} THEN returned \cup {k} ELSE returned
        /\ nret' = Min(nret + Cardinality(Waiters(o)), 2)
    /\ fetching' = [fetching EXCEPT ![o] = FALSE]
    /\ pc' = [w \in Tasks |-> IF w \in Waiters(o) THEN "resume" ELSE pc[w]]
    /\ UNCHANGED <<active, op, attempt, waitOn, cacheAtExc, execOut, opOut, sinceEmpty,
                   evicted>>
    /\ UNCHANGED jwtVars
    /\ UNCHANGED async_lru
    /\ UNCHANGED <<arg, oplog>>

\* The fetch raises exception x (a ClientResponseError of status s from
\* raise_for_status, or a connection failure or timeout): the future carries
\* the exception to every awaiter; what the cache holds afterwards depends on
\* the async_lru release.
TokenFetchFails(o, x, s) ==
    /\ fetching[o]
    /\ fetching' = [fetching EXCEPT ![o] = FALSE]
    /\ cache' = AfterFailedFetch(cache, Pending(o), cache.st # "empty",
                                 Failed(x, s), NoEntry)
    /\ IF cache' # cache
       THEN sinceEmpty' = 0 /\ returned' = {} /\ nret' = 0
       ELSE UNCHANGED <<sinceEmpty, returned, nret>>
    /\ delivered' = [w \in Tasks |->
                        IF w \in Waiters(o) THEN GotExc(x, s) ELSE delivered[w]]
    /\ pc' = [w \in Tasks |-> IF w \in Waiters(o) THEN "resume" ELSE pc[w]]
    /\ UNCHANGED <<issued, active, op, attempt, waitOn, log, cacheAtExc, execOut, opOut,
                   evicted>>
    /\ UNCHANGED jwtVars
    /\ UNCHANGED async_lru
    /\ UNCHANGED <<arg, oplog>>

TokenEndpointErrors(o) ==
    \E s \in TokenErrStatuses : TokenFetchFails(o, "ClientResponseError", s)

TokenEndpointUnreachable(o) ==
    \E x \in NetExceptions : TokenFetchFails(o, x, 0)

\* A direct _get_admin_token call ends: the token, or the fetch's exception.
TokenCallEnds(t) ==
    /\ pc[t] = "resume"
    /\ op[t] = "_get_admin_token"
    /\ pc' = [pc EXCEPT ![t] = "done"]
    /\ opOut' = [opOut EXCEPT ![t] =
                    IF delivered[t].ok THEN ReturnedToken(delivered[t].tok)
                    ELSE Raised(delivered[t].exc, delivered[t].status, "", FALSE)]
    /\ UNCHANGED <<cache, issued, fetching, active, op, attempt, waitOn, delivered,
                   log, cacheAtExc, execOut, sinceEmpty, returned, nret, evicted>>
    /\ UNCHANGED jwtVars
    /\ UNCHANGED async_lru
    /\ UNCHANGED <<arg, oplog>>

\* The handlers of the try statement, applied to exception x (status s) raised
\* in task t's current attempt; lg is t's log up to the exception.
Handle(t, x, s, lg) ==
    LET d == HandleException(x, s, attempt[t])
        continues == d.act \in {"clear_continue", "sleep_continue"}
                     /\ attempt[t] + 1 < max_retries
        out == IF d.act = "raise" THEN d.out ELSE AllRetriesFailed
        lg2 == IF d.act = "clear_continue" THEN Append(lg, EvClear)
               ELSE IF d.act = "sleep_continue" THEN Append(lg, EvSleep(d.delay))
               ELSE lg
    IN  /\ cacheAtExc' = [cacheAtExc EXCEPT ![t] = cache]
        /\ IF d.act = "clear_continue"
           THEN /\ cache' = ClearedCache(cache)
                /\ sinceEmpty' = 0 /\ returned' = {} /\ nret' = 0
                /\ evicted' = evicted \cup Evictable(cache)
           ELSE UNCHANGED <<cache, sinceEmpty, returned, nret, evicted>>
        /\ log' = [log EXCEPT ![t] = lg2]
        /\ IF continues
           THEN /\ attempt' = [attempt EXCEPT ![t] = @ + 1]
                /\ pc' = [pc EXCEPT ![t] = "get_token"]
                /\ UNCHANGED <<execOut, opOut>>
           ELSE /\ pc' = [pc EXCEPT ![t] = ExecEndPc(op[t])]
                /\ execOut' = [execOut EXCEPT ![t] = out]
                /\ opOut' = [opOut EXCEPT ![t] = ExecEndOut(op[t], @, out)]
                /\ UNCHANGED attempt

\* `await self._headers()` / `await self._get_admin_token()` raised inside the
\* try statement of the executor.
TokenFetchRaised(t) ==
    /\ pc[t] = "resume"
    /\ op[t] \in ExecutorOps
    /\ ~delivered[t].ok
    /\ Handle(t, delivered[t].exc, delivered[t].status,
              Append(log[t], EvResp("token", delivered[t].status, delivered[t].exc)))
    /\ UNCHANGED <<issued, fetching, active, op, waitOn, delivered>>
    /\ UNCHANGED jwtVars
    /\ UNCHANGED async_lru
    /\ UNCHANGED <<arg, oplog>>

\* session.request(method, url, headers = Bearer <token>): the attempt's request.
SendRequest(t) ==
    /\ pc[t] = "resume"
    /\ op[t] \in ExecutorOps
    /\ delivered[t].ok
    /\ log' = [log EXCEPT ![t] = Append(@, EvSend(delivered[t].tok))]
    /\ pc' = [pc EXCEPT ![t] = "await_resp"]
    /\ UNCHANGED <<cache, issued, fetching, active, op, attempt, waitOn, delivered,
                   cacheAtExc, execOut, opOut, sinceEmpty, returned, nret, evicted>>
    /\ UNCHANGED jwtVars
    /\ UNCHANGED async_lru
    /\ UNCHANGED <<arg, oplog>>

\* The management endpoint answers with a status line; json says whether the
\* content type is application/json.
MgmtResponds(t, status, json) ==
    /\ pc[t] = "await_resp"
    /\ IF raise_for_status(status) THEN
            Handle(t, "ClientResponseError", status,
                   Append(log[t], EvResp("mgmt", status, "")))
       ELSE LET out == Returned(status, IF json THEN "json" ELSE "None") IN
            /\ log' = [log EXCEPT ![t] = Append(@, EvResp("mgmt", status, ""))]
            /\ cacheAtExc' = [cacheAtExc EXCEPT ![t] = cache]
            /\ pc' = [pc EXCEPT ![t] = ExecEndPc(op[t])]
            /\ execOut' = [execOut EXCEPT ![t] = out]
            /\ opOut' = [opOut EXCEPT ![t] = ExecEndOut(op[t], @, out)]
            /\ UNCHANGED <<cache, attempt, sinceEmpty, returned, nret, evicted>>
    /\ UNCHANGED <<issued, fetching, active, op, waitOn, delivered>>
    /\ UNCHANGED jwtVars
    /\ UNCHANGED async_lru
    /\ UNCHANGED <<arg, oplog>>

\* No response arrives: connection failure, or the 10 s total timeout expires.
MgmtUnreachable(t, x) ==
    /\ pc[t] = "await_resp"
    /\ Handle(t, x, 0, Append(log[t], EvResp("mgmt", 0, x)))
    /\ UNCHANGED <<issued, fetching, active, op, waitOn, delivered>>
    /\ UNCHANGED jwtVars
    /\ UNCHANGED async_lru
    /\ UNCHANGED <<arg, oplog>>

\* A caller enters one of the operations with arguments a.
CallOp(t, o, a) ==
    /\ CanCall(t)
    /\ pc' = [pc EXCEPT ![t] = "get_token"]
    /\ op' = [op EXCEPT ![t] = o]
    /\ arg' = [arg EXCEPT ![t] = a]
    /\ oplog' = [oplog EXCEPT ![t] = << >>]
    /\ attempt' = [attempt EXCEPT ![t] = 0]
    /\ delivered' = [delivered EXCEPT ![t] = NoDelivery]
    /\ log' = [log EXCEPT ![t] = << >>]
    /\ cacheAtExc' = [cacheAtExc EXCEPT ![t] = NoEntry]
    /\ execOut' = [execOut EXCEPT ![t] = NoOutcome]
    /\ opOut' = [opOut EXCEPT ![t] = NoOutcome]
    /\ UNCHANGED <<cache, issued, fetching, active, waitOn, sinceEmpty, returned, nret,
                   evicted>>
    /\ UNCHANGED jwtVars
    /\ UNCHANGED async_lru

\* `await self._make_request_with_retry(...)` returned or raised inside
\* update_user_info / assign_role_to_user: the operation ends, or enters the
\* executor again (attempt = 0) with its second request.
OpStep(t) ==
    /\ pc[t] = "exec_done"
    /\ LET d == OpAfter(op[t], arg[t], oplog[t], execOut[t]) IN
        /\ oplog' = [oplog EXCEPT ![t] =
                        Append(@, ExecCall(RequestOf(op[t], arg[t], oplog[t]),
                                           execOut[t]))]
        /\ IF d.again
           THEN /\ pc' = [pc EXCEPT ![t] = "get_token"]
                /\ attempt' = [attempt EXCEPT ![t] = 0]
                /\ log' = [log EXCEPT ![t] = << >>]
                /\ delivered' = [delivered EXCEPT ![t] = NoDelivery]
                /\ execOut' = [execOut EXCEPT ![t] = NoOutcome]
                /\ UNCHANGED opOut
           ELSE /\ pc' = [pc EXCEPT ![t] = "done"]
                /\ opOut' = [opOut EXCEPT ![t] = d.out]
                /\ UNCHANGED <<attempt, log, delivered, execOut>>
    /\ UNCHANGED <<cache, issued, fetching, active, op, waitOn, cacheAtExc, sinceEmpty,
                   returned, nret, evicted, arg>>
    /\ UNCHANGED jwtVars
    /\ UNCHANGED async_lru

\* ------------------------------------- the earlier copy: executor steps
\* The handlers of the try statement of the earlier copy's executor, applied
\* to exception x (status s) raised in task t's current attempt; the url is
\* that of the request in hand.
LegacyHandle(t, x, s, lg) ==
    LET url == LegacyRequestOf(op[t], arg[t], oplog[t]).url
        d == LegacyHandleException(x, s, attempt[t], user_in_url(url, arg[t]))
        continues == d.act \in {"clear_continue", "sleep_continue"}
                     /\ attempt[t] + 1 < max_retries
        out == IF d.act = "raise" THEN d.out ELSE LegacyAuthException(AUTH_SERVER_UNAVAILABLE, FALSE)
        lg2 == IF d.act = "clear_continue" THEN Append(lg, EvClear)
               ELSE IF d.act = "sleep_continue" THEN Append(lg, EvSleep(d.delay))
               ELSE lg
    IN  /\ cacheAtExc' = [cacheAtExc EXCEPT ![t] = cache]
        /\ IF d.act = "clear_continue"
           THEN /\ cache' = ClearedCache(cache)
                /\ sinceEmpty' = 0 /\ returned' = {} /\ nret' = 0
                /\ evicted' = evicted \cup Evictable(cache)
           ELSE UNCHANGED <<cache, sinceEmpty, returned, nret, evicted>>
        /\ log' = [log EXCEPT ![t] = lg2]
        /\ IF continues
           THEN /\ attempt' = [attempt EXCEPT ![t] = @ + 1]
                /\ pc' = [pc EXCEPT ![t] = "get_token"]
                /\ UNCHANGED execOut
           ELSE /\ pc' = [pc EXCEPT ![t] = "exec_done"]
                /\ execOut' = [execOut EXCEPT ![t] = out]
                /\ UNCHANGED attempt

\* `await self._headers()` / `await self._get_admin_token()` raised inside the
\* try statement.
LegacyTokenFetchRaised(t) ==
    /\ pc[t] = "resume"
    /\ op[t] \in LegacyOps
    /\ ~delivered[t].ok
    /\ LegacyHandle(t, delivered[t].exc, delivered[t].status,
                    Append(log[t], EvResp("token", delivered[t].status, delivered[t].exc)))
    /\ UNCHANGED <<issued, fetching, active, op, waitOn, delivered, opOut>>
    /\ UNCHANGED jwtVars
    /\ UNCHANGED async_lru
    /\ UNCHANGED <<arg, oplog>>

\* session.request(method, url, **kwargs) with the Bearer token in the
\* headers; the event keeps the url the request goes to.
LegacySendRequest(t) ==
    /\ pc[t] = "resume"
    /\ op[t] \in LegacyOps
    /\ delivered[t].ok
    /\ log' = [log EXCEPT ![t] =
                  Append(@, Ev("send", delivered[t].tok,
                               LegacyRequestOf(op[t], arg[t], oplog[t]).url,
                               0, "", 0))]
    /\ pc' = [pc EXCEPT ![t] = "await_resp"]
    /\ UNCHANGED <<cache, issued, fetching, active, op, attempt, waitOn, delivered,
                   cacheAtExc, execOut, opOut, sinceEmpty, returned, nret, evicted>>
    /\ UNCHANGED jwtVars
    /\ UNCHANGED async_lru
    /\ UNCHANGED <<arg, oplog>>

\* The management endpoint answers with a status line; json says whether the
\* content type is application/json.
LegacyMgmtResponds(t, status, json) ==
    /\ pc[t] = "await_resp"
    /\ op[t] \in LegacyOps
    /\ IF raise_for_status(status) THEN
            LegacyHandle(t, "ClientResponseError", status,
                         Append(log[t], EvResp("mgmt", status, "")))
       ELSE /\ log' = [log EXCEPT ![t] = Append(@, EvResp("mgmt", status, ""))]
            /\ cacheAtExc' = [cacheAtExc EXCEPT ![t] = cache]
            /\ pc' = [pc EXCEPT ![t] = "exec_done"]
            /\ execOut' = [execOut EXCEPT ![t] =
                              Returned(status, IF json THEN "json" ELSE "None")]
            /\ UNCHANGED <<cache, attempt, sinceEmpty, returned, nret, evicted>>
    /\ UNCHANGED <<issued, fetching, active, op, waitOn, delivered, opOut>>
    /\ UNCHANGED jwtVars
    /\ UNCHANGED async_lru
    /\ UNCHANGED <<arg, oplog>>

\* No response arrives: connection failure or timeout.
LegacyMgmtUnreachable(t, x) ==
    /\ pc[t] = "await_resp"
    /\ op[t] \in LegacyOps
    /\ LegacyHandle(t, x, 0, Append(log[t], EvResp("mgmt", 0, x)))
    /\ UNCHANGED <<issued, fetching, active, op, waitOn, delivered, opOut>>
    /\ UNCHANGED jwtVars
    /\ UNCHANGED async_lru
    /\ UNCHANGED <<arg, oplog>>

\* `await self._make_request_with_retry(...)` returned or raised inside a
\* coroutine of the earlier copy: the coroutine ends, or enters the executor
\* again (attempt = 0) with its second request.
LegacyOpStep(t) ==
    /\ pc[t] = "exec_done"
    /\ op[t] \in LegacyOps
    /\ LET d == LegacyOpAfter(op[t], arg[t], oplog[t], execOut[t]) IN
        /\ oplog' = [oplog EXCEPT ![t] =
                        Append(@, ExecCall(LegacyRequestOf(op[t], arg[t], oplog[t]),
                                           execOut[t]))]
        /\ IF d.again
           THEN /\ pc' = [pc EXCEPT ![t] = "get_token"]
                /\ attempt' = [attempt EXCEPT ![t] = 0]
                /\ log' = [log EXCEPT ![t] = << >>]
                /\ delivered' = [delivered EXCEPT ![t] = NoDelivery]
                /\ execOut' = [execOut EXCEPT ![t] = NoOutcome]
                /\ UNCHANGED opOut
           ELSE /\ pc' = [pc EXCEPT ![t] = "done"]
                /\ opOut' = [opOut EXCEPT ![t] = d.out]
                /\ UNCHANGED <<attempt, log, delivered, execOut>>
    /\ UNCHANGED <<cache, issued, fetching, active, op, waitOn, cacheAtExc, sinceEmpty,
                   returned, nret, evicted, arg>>
    /\ UNCHANGED jwtVars
    /\ UNCHANGED async_lru

Next ==
    \/ \E t \in Tasks : \E o \in {"get_user_info", "_get_admin_token"} : Call(t, o)
    \/ \E t \in Tasks : _clear_token_cache(t)
    \/ \E t \in Tasks : _get_admin_token(t)
    \/ \E o \in Tasks : TokenEndpointGrants(o)
    \/ \E o \in Tasks : TokenEndpointErrors(o)
    \/ \E o \in Tasks : TokenEndpointUnreachable(o)
    \/ \E t \in Tasks : TokenCallEnds(t)
    \/ \E t \in Tasks : TokenFetchRaised(t)
    \/ \E t \in Tasks : SendRequest(t)
    \/ \E t \in Tasks : \E s \in MgmtStatuses : \E j \in BOOLEAN : MgmtResponds(t, s, j)
    \/ \E t \in Tasks : \E x \in NetExceptions : MgmtUnreachable(t, x)

Spec == Init /\ [][Next]_vars

\* The operations of KeycloakAdmin, one caller at a time.
NextOps ==
    \/ \E t \in Tasks : \E o \in ExecutorOps : \E a \in ArgsOf(o) : CallOp(t, o, a)
    \/ \E t \in Tasks : _get_admin_token(t)
    \/ \E o \in Tasks : TokenEndpointGrants(o)
    \/ \E o \in Tasks : TokenEndpointErrors(o)
    \/ \E o \in Tasks : TokenEndpointUnreachable(o)
    \/ \E t \in Tasks : TokenFetchRaised(t)
    \/ \E t \in Tasks : SendRequest(t)
    \/ \E t \in Tasks : \E s \in MgmtStatuses : \E j \in BOOLEAN : MgmtResponds(t, s, j)
    \/ \E t \in Tasks : \E x \in NetExceptions : MgmtUnreachable(t, x)
    \/ \E t \in Tasks : OpStep(t)

SpecOps == Init /\ [][NextOps]_vars

\* The coroutines of the earlier copy, one caller at a time, with the token
\* endpoint and the management endpoint of the current class.
NextLegacy ==
    \/ \E t \in Tasks : \E o \in LegacyOps : \E a \in LegacyArgsOf(o) : CallOp(t, o, a)
    \/ \E t \in Tasks : _get_admin_token(t)
    \/ \E o \in Tasks : TokenEndpointGrants(o)
    \/ \E o \in Tasks : TokenEndpointErrors(o)
    \/ \E o \in Tasks : TokenEndpointUnreachable(o)
    \/ \E t \in Tasks : LegacyTokenFetchRaised(t)
    \/ \E t \in Tasks : LegacySendRequest(t)
    \/ \E t \in Tasks : \E s \in MgmtStatuses : \E j \in BOOLEAN :
          LegacyMgmtResponds(t, s, j)
    \/ \E t \in Tasks : \E x \in NetExceptions : LegacyMgmtUnreachable(t, x)
    \/ \E t \in Tasks : LegacyOpStep(t)
SpecLegacy == Init /\ [][NextLegacy]_vars

\* ------------------------------------------------- reading a call's log
IsSend(e) == e.e = "send"
IsResp(e) == e.e = "resp"
IsMgmtResp(e) == e.e = "resp" /\ e.src = "mgmt"
IsSleep(e) == e.e = "sleep"

Sends(t) == SelectSeq(log[t], IsSend)
Resps(t) == SelectSeq(log[t], IsResp)
MgmtResps(t) == SelectSeq(log[t], IsMgmtResp)
Sleeps(t) == SelectSeq(log[t], IsSleep)

InExecutor(t) == op[t] = "get_user_info"
ExecDone(t) == InExecutor(t) /\ pc[t] = "done"

\* ---------------------------------------------------------------- C1
\* C1: one call of _make_request_with_retry issues at most max_retries = 3
\* requests to the management endpoint, runs at most 3 attempts, and has
\* terminated (returned {status, data} or raised) once its third attempt has
\* been answered: it never starts a fourth attempt.
C1_AtMostThreeRequests ==
    \A t \in Tasks : InExecutor(t) =>
        /\ Len(Sends(t)) <= 3
        /\ Len(Resps(t)) <= 3
        /\ attempt[t] < 3
        /\ (Len(Resps(t)) = 3 => pc[t] = "done")
        /\ (pc[t] = "done" => execOut[t].kind \in {"return", "raise"})

C1_Witness ==
    \E t \in Tasks : ExecDone(t) /\ Len(Sends(t)) = 3 /\ execOut[t].kind = "raise"

\* ---------------------------------------------------------------- C2
\* C2: when the management endpoint answers 401 to the first request of a call
\* and 200 to the second, the call returns status 200 after exactly two
\* requests, and the token of the second request comes from a grant fetch this
\* call started after it cleared the cache: it differs from the rejected token
\* and is the token now cached.
C2_RefreshOn401 ==
    \A t \in Tasks :
        (/\ ExecDone(t)
         /\ Len(MgmtResps(t)) = 2
         /\ MgmtResps(t)[1].status = 401
         /\ MgmtResps(t)[2].status = 200)
        =>
        /\ execOut[t].kind = "return" /\ execOut[t].status = 200
        /\ Len(Sends(t)) = 2
        /\ Sends(t)[2].tok # Sends(t)[1].tok
        /\ cache = Cached(Sends(t)[2].tok)
        /\ \E r, c, g, k \in DOMAIN log[t] :
              /\ r < c /\ c < g /\ g < k
              /\ IsMgmtResp(log[t][r]) /\ log[t][r].status = 401
              /\ log[t][c].e = "clear"
              /\ log[t][g].e = "grant"
              /\ log[t][k].e = "token" /\ log[t][k].tok = Sends(t)[2].tok
              /\ k + 1 \in DOMAIN log[t] /\ log[t][k + 1] = EvSend(Sends(t)[2].tok)

C2_Witness ==
    \E t \in Tasks :
        /\ ExecDone(t)
        /\ Len(MgmtResps(t)) = 2
        /\ MgmtResps(t)[1].status = 401
        /\ MgmtResps(t)[2].status = 200
        /\ execOut[t].kind = "return"

\* ---------------------------------------------------------------- C3
\* C3: when every attempt of a call is answered 401 or 403 by the management
\* endpoint, the call makes exactly 3 requests, never sleeps, follows each of
\* the first two answers directly by the cache clear of the retry, and raises
\* AuthTokenExpiredException (status 401) on the third.
AllRejected(t) ==
    /\ Resps(t) # << >>
    /\ \A i \in DOMAIN Resps(t) :
          Resps(t)[i].src = "mgmt" /\ Resps(t)[i].status \in {401, 403}

C3_RejectedThreeTimes ==
    \A t \in Tasks : (ExecDone(t) /\ AllRejected(t)) =>
        /\ Len(Sends(t)) = 3
        /\ Sleeps(t) = << >>
        /\ execOut[t] = AuthTokenExpiredException
        /\ execOut[t].status = 401
        /\ \A i \in DOMAIN log[t] :
              (IsMgmtResp(log[t][i]) /\ i < Len(log[t])) => log[t][i + 1].e = "clear"

C3_Witness ==
    \E t \in Tasks :
        /\ ExecDone(t) /\ AllRejected(t)
        /\ \E i \in DOMAIN Resps(t) : Resps(t)[i].status = 403
        /\ \E i \in DOMAIN Resps(t) : Resps(t)[i].status = 401

\* ---------------------------------------------------------------- C4
\* C4: after a call has failed with AuthTokenExpiredException (the 401/403 of
\* its last attempt included) the admin-token cache is empty.
C4_CacheEmptyAfterRefreshFailed ==
    \A t \in Tasks :
        (ExecDone(t) /\ execOut[t].exc = "AuthTokenExpiredException")
        => cache.st = "empty"

\* ---------------------------------------------------------------- C5
\* C5: a 404 answer of the management endpoint ends the call at once: nothing
\* follows it in the call (no request, no sleep, no cache clear), the call
\* raises AuthException with status 404 "Resource not found", the cache is what
\* it was when the answer arrived, and a call whose first answer is 404 has
\* issued exactly one request.
C5_NotFoundIsTerminal ==
    \A t \in Tasks : \A i \in DOMAIN log[t] :
        (InExecutor(t) /\ IsMgmtResp(log[t][i]) /\ log[t][i].status = 404) =>
            /\ i = Len(log[t])
            /\ pc[t] = "done"
            /\ execOut[t] = AuthException(404, "Resource not found")
            /\ Sleeps(t) = << >>
            /\ cache = cacheAtExc[t]
            /\ (Len(MgmtResps(t)) = 1 => Len(Sends(t)) = 1)

C5_Witness ==
    \E t \in Tasks :
        /\ ExecDone(t)
        /\ Len(MgmtResps(t)) = 1 /\ MgmtResps(t)[1].status = 404
        /\ cache.st = "done"

\* ---------------------------------------------------------------- C6
\* C6 as stated: a management answer with status >= 500 ends the call after
\* exactly one request with an error kind distinct from the one used for
\* connection failures (AuthServerUnavailableException, 503).
C6_ServerErrorDistinctKind ==
    \A t \in Tasks :
        (/\ ExecDone(t)
         /\ Len(MgmtResps(t)) = 1
         /\ MgmtResps(t)[1].status >= 500)
        =>
        /\ Len(Sends(t)) = 1
        /\ Sleeps(t) = << >>
        /\ execOut[t].exc # "AuthServerUnavailableException"

\* C6 amended: a management answer with status >= 500 ends the call at once
\* (nothing follows it, no sleep, one request when it is the first answer) and
\* the call raises AuthServerUnavailableException with status 503, the same
\* error kind the executor uses for an unavailable identity provider.
C6_ServerErrorIsTerminal ==
    \A t \in Tasks : \A i \in DOMAIN log[t] :
        (InExecutor(t) /\ IsMgmtResp(log[t][i]) /\ log[t][i].status >= 500) =>
            /\ i = Len(log[t])
            /\ pc[t] = "done"
            /\ Sleeps(t) = << >>
            /\ execOut[t] =
                 AuthServerUnavailableException("Authentication server unavailable")
            /\ execOut[t].status = 503
            /\ execOut[t].exc = AllRetriesFailed.exc
            /\ (Len(MgmtResps(t)) = 1 => Len(Sends(t)) = 1)

C6_Witness ==
    \E t \in Tasks :
        /\ ExecDone(t)
        /\ Len(MgmtResps(t)) = 1 /\ MgmtResps(t)[1].status = 503
        /\ execOut[t].status = 503

\* ---------------------------------------------------------------- C7
\* C7: when every attempt of a call ends in a connection-level failure, the
\* call makes exactly 3 attempts with sleeps of 1 s and 2 s between them and
\* raises AuthServerUnavailableException (503).
IsConnectionFailure(e) ==
    e.e = "resp" /\ e.exc # "" /\ IsInstance(e.exc, "ClientConnectionError")

C7_ConnectionFailureBackoff ==
    \A t \in Tasks :
        (/\ ExecDone(t)
         /\ Resps(t) # << >>
         /\ \A i \in DOMAIN Resps(t) : IsConnectionFailure(Resps(t)[i]))
        =>
        /\ Len(Resps(t)) = 3
        /\ Len(Sleeps(t)) = 2
        /\ Sleeps(t)[1].delay = 1 /\ Sleeps(t)[2].delay = 2
        /\ execOut[t].exc = "AuthServerUnavailableException"
        /\ execOut[t].status = 503

\* ---------------------------------------------------------------- C8
\* C8: a call that ends on a request timeout raises
\* AuthServerUnavailableException (503) from the executor, and get_user_info
\* passes it on: no other exception type leaves the executor and the caller
\* sees no 500 "Unexpected error".
C8_TimeoutIsUnavailable ==
    \A t \in Tasks :
        (/\ ExecDone(t)
         /\ log[t] # << >>
         /\ log[t][Len(log[t])].e = "resp"
         /\ log[t][Len(log[t])].exc = "TimeoutError")
        =>
        /\ execOut[t].exc = "AuthServerUnavailableException"
        /\ opOut[t].status = 503
        /\ opOut[t].detail # "Unexpected error"

\* ---------------------------------------------------------------- C9
\* C9: a management answer with an error status other than 401, 403, 404 and
\* >= 500 ends the call at once with an AuthException that carries that very
\* status; a call whose first answer is such a status has issued one request.
OtherErrorStatus(s) == s >= 400 /\ s < 500 /\ s \notin {401, 403, 404}

C9_OtherStatusCarried ==
    \A t \in Tasks : \A i \in DOMAIN log[t] :
        (InExecutor(t) /\ IsMgmtResp(log[t][i]) /\ OtherErrorStatus(log[t][i].status)) =>
            /\ i = Len(log[t])
            /\ pc[t] = "done"
            /\ Sleeps(t) = << >>
            /\ execOut[t].kind = "raise"
            /\ execOut[t].exc = "AuthException"
            /\ execOut[t].status = log[t][i].status
            /\ (Len(MgmtResps(t)) = 1 => Len(Sends(t)) = 1)

C9_Witness ==
    \E t \in Tasks :
        /\ ExecDone(t)
        /\ Len(MgmtResps(t)) = 1 /\ MgmtResps(t)[1].status = 409
        /\ execOut[t].status = 409

\* --------------------------------------------------------------- C10
\* C10: while no cache clear and no failed fetch empties the cache, at most one
\* request goes to the token endpoint and every _get_admin_token call returns
\* the same token, the cached one.
C10_GetTokenIdempotent ==
    /\ sinceEmpty <= 1
    /\ Cardinality(returned) <= 1
    /\ (cache.st = "done" => returned \subseteq {cache.tok})
    /\ \A t \in Tasks :
          (op[t] = "_get_admin_token" /\ pc[t] = "done" /\ opOut[t].kind = "return"
           /\ cache.st = "done")
          => opOut[t].tok = cache.tok

C10_Witness ==
    \E t \in Tasks :
        /\ op[t] = "_get_admin_token" /\ pc[t] = "done"
        /\ opOut[t].kind = "return"
        /\ log[t] = <<EvHit(opOut[t].tok)>>
        /\ nret = 2
        /\ sinceEmpty = 1

\* C11: _clear_token_cache empties the cache whether or not a token is cached,
\* and no token a cache clear dropped is cached, delivered or returned again:
\* the _get_admin_token call after a clear asks the token endpoint.
C11_ClearThenFreshFetch ==
    /\ \A t \in Tasks :
          (op[t] = "_clear_token_cache" /\ pc[t] = "done") => cache = NoEntry
    /\ (cache.st = "done" => cache.tok \notin evicted)
    /\ \A t \in Tasks :
          /\ (pc[t] = "resume" /\ delivered[t].ok) => delivered[t].tok \notin evicted
          /\ (op[t] = "_get_admin_token" /\ pc[t] = "done"
               /\ opOut[t].kind = "return")
             => opOut[t].tok \notin evicted

\* A token was cached and cleared, and the next _get_admin_token call fetched a
\* new one from the token endpoint.
C11_Witness ==
    \E t \in Tasks :
        /\ op[t] = "_get_admin_token" /\ pc[t] = "done"
        /\ opOut[t].kind = "return"
        /\ evicted # {}
        /\ sinceEmpty = 1 /\ nret = 1
        /\ Len(log[t]) = 2 /\ log[t][1] = EvGrant
        /\ log[t][2] = EvToken(opOut[t].tok)

\* C12: a failed client-credentials grant always surfaces as
\* AuthServerUnavailableException (503), from _get_admin_token itself and from
\* a call that runs through _make_request_with_retry, and is never handled as
\* a rejected admin token (no cache clear follows it).
C12_GrantFailureIsUnavailable ==
    \A t \in Tasks :
        /\ (op[t] = "_get_admin_token" /\ pc[t] = "done"
             /\ opOut[t].kind = "raise")
           => (opOut[t].exc = "AuthServerUnavailableException"
               /\ opOut[t].status = 503)
        /\ (ExecDone(t) /\ Len(log[t]) > 0
             /\ log[t][Len(log[t])].e = "resp"
             /\ log[t][Len(log[t])].src = "token")
           => (execOut[t].exc = "AuthServerUnavailableException"
               /\ execOut[t].status = 503)
        /\ \A i \in 1..(Len(log[t]) - 1) :
              (log[t][i].e = "resp" /\ log[t][i].src = "token")
              => log[t][i + 1].e # "clear"

\* --------------------------------------- KeycloakJWTHandler: operators
\* Step 1 of verify_token: jwt.get_unverified_header(token) raises DecodeError
\* on a token it cannot decode; a header without "kid" raises
\* AuthInvalidSessionException; NoOutcome when the header gives a kid.
RawException(x) == Raised(x, 0, "", FALSE)
HeaderCheckNoKidGuard(tok) ==
    IF ~tok.decodable THEN RawException("DecodeError") ELSE NoOutcome
HeaderCheck(tok) ==
    IF ~tok.decodable THEN RawException("DecodeError")
    ELSE IF tok.kid = "" THEN AuthInvalidSessionException("Token missing key ID")
    ELSE NoOutcome

\* The dictionary one _get_public_keys fetch builds from the JWKS document
\* served: public_keys = {} filled with the served keys (prev is what the
\* previous fetch built).
BuildKeysMerged(prev, served) == prev \cup served
BuildKeys(prev, served) == served

\* What _get_public_keys raises when the fetch raises x: every exception is
\* wrapped.
JwksFailures == {"ClientResponseError", "ClientConnectorError", "TimeoutError"}
JwksFetchErrorUnwrapped(x) == RawException(x)
JwksFetchError(x) ==
    AuthServerUnavailableException("Failed to fetch Keycloak public keys")

\* jwt.decode with verify_signature, verify_exp, verify_iss, verify_aud: the
\* class of the first failed validation, "" when all pass.
jwt_decode(tok) ==
    IF "sig" \in tok.flaws THEN "InvalidSignatureError"
    ELSE IF "exp" \in tok.flaws THEN "ExpiredSignatureError"
    ELSE IF "iss" \in tok.flaws THEN "InvalidIssuerError"
    ELSE IF "aud" \in tok.flaws THEN "InvalidAudienceError"
    ELSE ""

\* The except clauses of verify_token, in order, applied to what the try block
\* raised.
VerifyExceptGenericFirst(r) ==
    IF IsInstance(r.exc, "InvalidTokenError")
         THEN AuthInvalidSessionException("Invalid token")
    ELSE IF IsInstance(r.exc, "ExpiredSignatureError") THEN AuthTokenExpiredException
    ELSE IF IsInstance(r.exc, "InvalidAudienceError")
         THEN AuthInvalidAudienceException("Token audience does not match client")
    ELSE IF IsInstance(r.exc, "InvalidIssuerError")
         THEN AuthInvalidSessionException("Token issuer is invalid")
    ELSE IF IsInstance(r.exc, "AuthException") THEN r
    ELSE [AuthException(500, "Unexpected error during token verification")
             EXCEPT !.error_id = TRUE]
VerifyExceptNoHeaderOnIssuer(r) ==
    IF IsInstance(r.exc, "ExpiredSignatureError") THEN AuthTokenExpiredException
    ELSE IF IsInstance(r.exc, "InvalidAudienceError")
         THEN AuthInvalidAudienceException("Token audience does not match client")
    ELSE IF IsInstance(r.exc, "InvalidIssuerError")
         THEN AuthInvalidSessionNoHeader("Token issuer is invalid")
    ELSE IF IsInstance(r.exc, "InvalidTokenError")
         THEN AuthInvalidSessionException("Invalid token")
    ELSE IF IsInstance(r.exc, "AuthException") THEN r
    ELSE [AuthException(500, "Unexpected error during token verification")
             EXCEPT !.error_id = TRUE]
VerifyExcept(r) ==
    IF IsInstance(r.exc, "ExpiredSignatureError") THEN AuthTokenExpiredException
    ELSE IF IsInstance(r.exc, "InvalidAudienceError")
         THEN AuthInvalidAudienceException("Token audience does not match client")
    ELSE IF IsInstance(r.exc, "InvalidIssuerError")
         THEN AuthInvalidSessionException("Token issuer is invalid")
    ELSE IF IsInstance(r.exc, "InvalidTokenError")
         THEN AuthInvalidSessionException("Invalid token")
    ELSE IF IsInstance(r.exc, "AuthException") THEN r
    ELSE [AuthException(500, "Unexpected error during token verification")
             EXCEPT !.error_id = TRUE]

\* Role-based access control: `if roles:` is false for None and for [].
RoleCheckAppliesWhenGiven(r) == r.given
RoleCheckApplies(r) == r.given /\ r.list # {}
\* realm_access.roles and the roles of every client under resource_access.
UserRolesRealmOnly(tok) == tok.realm
UserRoles(tok) == tok.realm \cup UNION {tok.clients[c] : c \in Clients}
\* any(role in user_roles for role in roles)
HasAnyRole(r, tok) == \E x \in r.list : x \in UserRoles(tok)

\* The role check placed ahead of jwt.decode.
DecodeAndAuthorizeRolesFirst(tok, r) ==
    IF RoleCheckApplies(r) /\ ~HasAnyRole(r, tok)
    THEN VOut(VerifyExcept(AuthForbiddenException("Required role(s)")), r.list)
    ELSE LET x == jwt_decode(tok) IN
         IF x # "" THEN VOut(VerifyExcept(RawException(x)), {})
         ELSE VOut(Returned(0, "payload"), {})

\* jwt.decode, then the role check, then `return payload`.
DecodeAndAuthorize(tok, r) ==
    LET x == jwt_decode(tok) IN
    IF x # "" THEN VOut(VerifyExcept(RawException(x)), {})
    ELSE IF RoleCheckApplies(r) /\ ~tok.wellformed
         THEN VOut(VerifyExcept(RawException("AttributeError")), {})
    ELSE IF RoleCheckApplies(r) /\ ~HasAnyRole(r, tok)
         THEN VOut(VerifyExcept(AuthForbiddenException("Required role(s)")), r.list)
    ELSE VOut(Returned(0, "payload"), {})

\* `if kid not in public_keys:` clears the cache and looks up again only after
\* lookup number 1; after lookup number 2 it raises KeyNotFound.
MayRefreshAlways(n) == TRUE
MayRefresh(n) == n = 1
KeyNotFound == AuthInvalidSessionException("Public key not found for token")

\* Tokens a caller may present: undecodable, without kid, or with a kid.
TokenInputs == {Token(FALSE, "")} \cup {Token(TRUE, k) : k \in Kids \cup {""}}

\* ----------------------------------------- KeycloakJWTHandler: actions
AwaitPc(n) == IF n = 1 THEN "await1" ELSE "await2"
HavePc(n) == IF n = 1 THEN "have1" ELSE "have2"
Lookup(p) == IF p = "keys1" THEN 1 ELSE 2

\* verify_token(token, roles) up to its first await: the header is decoded
\* and the kid checked; a failure there goes through the except clauses.
VerifyCall(t, i, tok, r) ==
    /\ t \in vactive
    /\ i \in handlers
    /\ vpc[t] \in {"idle", "done"}
    /\ vinst' = [vinst EXCEPT ![t] = i]
    /\ kidServed' = [kidServed EXCEPT ![t] = tok.kid \in upstream]
    /\ vtok' = [vtok EXCEPT ![t] = tok]
    /\ vroles' = [vroles EXCEPT ![t] = r]
    /\ vlog' = [vlog EXCEPT ![t] = << >>]
    /\ vkeys' = [vkeys EXCEPT ![t] = {}]
    /\ vwait' = [vwait EXCEPT ![t] = 0]
    /\ jcacheAtCall' = [jcacheAtCall EXCEPT ![t] = jcache]
    /\ LET hc == HeaderCheck(tok) IN
       IF hc = NoOutcome
       THEN /\ vpc' = [vpc EXCEPT ![t] = "keys1"]
            /\ vOut' = [vOut EXCEPT ![t] = NoVOut]
       ELSE /\ vpc' = [vpc EXCEPT ![t] = "done"]
            /\ vOut' = [vOut EXCEPT ![t] = VOut(VerifyExcept(hc), {})]
    /\ UNCHANGED <<upstream, jcache, jfetching, lastFetched, vactive, handlers>>
    /\ UNCHANGED adminVars
    /\ UNCHANGED async_lru

\* `await self._get_public_keys()` (first lookup, or the one after cache_clear):
\* a finished entry is returned at once, a failed entry raises its error
\* again without a request, an in-flight fetch is joined, an empty slot starts
\* the GET of the JWKS document.
_get_public_keys(t) ==
    /\ t \in vactive
    /\ vpc[t] \in {"keys1", "keys2"}
    /\ IF jcache.st = "done" /\ jcache.inst = vinst[t] THEN
            /\ vkeys' = [vkeys EXCEPT ![t] = jcache.keys]
            /\ vlog' = [vlog EXCEPT ![t] = Append(@, JHit(jcache.keys))]
            /\ vpc' = [vpc EXCEPT ![t] = HavePc(Lookup(vpc[t]))]
            /\ UNCHANGED <<jcache, jfetching, vwait, vOut>>
       ELSE IF jcache.st = "failed" /\ jcache.inst = vinst[t] THEN
            /\ vOut' = [vOut EXCEPT ![t] = VOut(JwksFetchError(jcache.exc), {})]
            /\ vlog' = [vlog EXCEPT ![t] = Append(@, JHitExc)]
            /\ vpc' = [vpc EXCEPT ![t] = "fetch_raised"]
            /\ UNCHANGED <<jcache, jfetching, vwait, vkeys>>
       ELSE IF jcache.st = "pending" /\ jcache.inst = vinst[t] THEN
            /\ vwait' = [vwait EXCEPT ![t] = jcache.owner]
            /\ vlog' = [vlog EXCEPT ![t] = Append(@, JJoin)]
            /\ vpc' = [vpc EXCEPT ![t] = AwaitPc(Lookup(vpc[t]))]
            /\ UNCHANGED <<jcache, jfetching, vkeys, vOut>>
       ELSE
            /\ ~jfetching[t]
            /\ jcache' = KeysPending(t, vinst[t])
            /\ jfetching' = [jfetching EXCEPT ![t] = TRUE]
            /\ vwait' = [vwait EXCEPT ![t] = t]
            /\ vlog' = [vlog EXCEPT ![t] = Append(@, JGet)]
            /\ vpc' = [vpc EXCEPT ![t] = AwaitPc(Lookup(vpc[t]))]
            /\ UNCHANGED <<vkeys, vOut>>
    /\ UNCHANGED <<upstream, lastFetched, vactive, vtok, vroles, jcacheAtCall>>
    /\ UNCHANGED <<handlers, vinst, kidServed>>
    /\ UNCHANGED adminVars
    /\ UNCHANGED async_lru

KeyWaiters(o) == {w \in Tasks : vpc[w] \in {"await1", "await2"} /\ vwait[w] = o}

\* The JWKS endpoint answers o's GET with the keys it serves now: the fetch
\* returns the dictionary built from them, and the entry (if still the one of
\* this fetch) holds it.
JwksResponds(o) ==
    /\ jfetching[o]
    /\ LET K == BuildKeys(lastFetched.keys, upstream) IN
        /\ jcache' = IF jcache = KeysPending(o, vinst[o])
                     THEN KeysCached(K, vinst[o]) ELSE jcache
        /\ lastFetched' = [any |-> TRUE, keys |-> K, served |-> upstream,
                           by |-> [lastFetched.by EXCEPT ![vinst[o]] = K]]
        /\ vkeys' = [w \in Tasks |-> IF w \in KeyWaiters(o) THEN K ELSE vkeys[w]]
        /\ vlog' = [w \in Tasks |->
                       IF w \in KeyWaiters(o) THEN Append(vlog[w], JKeys(K))
                       ELSE vlog[w]]
    /\ jfetching' = [jfetching EXCEPT ![o] = FALSE]
    /\ vpc' = [w \in Tasks |->
                  IF w \in KeyWaiters(o)
                  THEN HavePc(IF vpc[w] = "await1" THEN 1 ELSE 2) ELSE vpc[w]]
    /\ UNCHANGED <<upstream, vactive, vtok, vroles, vwait, jcacheAtCall, vOut>>
    /\ UNCHANGED <<handlers, vinst, kidServed>>
    /\ UNCHANGED adminVars
    /\ UNCHANGED async_lru

\* The GET of the JWKS document raises x (error status, connection failure,
\* timeout): _get_public_keys raises the wrapped error to every awaiter; what
\* the cache holds afterwards depends on the async_lru release.
JwksFails(o, x) ==
    /\ jfetching[o]
    /\ jfetching' = [jfetching EXCEPT ![o] = FALSE]
    /\ jcache' = AfterFailedFetch(jcache, KeysPending(o, vinst[o]),
                                  jcache.st # "empty" /\ jcache.inst = vinst[o],
                                  KeysFailed(vinst[o], x), NoKeys)
    /\ vOut' = [w \in Tasks |->
                   IF w \in KeyWaiters(o) THEN VOut(JwksFetchError(x), {})
                   ELSE vOut[w]]
    /\ vlog' = [w \in Tasks |->
                   IF w \in KeyWaiters(o) THEN Append(vlog[w], JError) ELSE vlog[w]]
    /\ vpc' = [w \in Tasks |-> IF w \in KeyWaiters(o) THEN "fetch_raised" ELSE vpc[w]]
    /\ UNCHANGED <<upstream, lastFetched, vactive, vtok, vroles, vkeys, vwait,
                   jcacheAtCall>>
    /\ UNCHANGED <<handlers, vinst, kidServed>>
    /\ UNCHANGED adminVars
    /\ UNCHANGED async_lru

\* `await self._get_public_keys()` raised inside the try block of verify_token.
FetchRaised(t) ==
    /\ t \in vactive
    /\ vpc[t] = "fetch_raised"
    /\ vOut' = [vOut EXCEPT ![t] = VOut(VerifyExcept(vOut[t].out), {})]
    /\ vpc' = [vpc EXCEPT ![t] = "done"]
    /\ UNCHANGED <<upstream, jcache, jfetching, lastFetched, vactive, vtok, vroles,
                   vkeys, vwait, vlog, jcacheAtCall>>
    /\ UNCHANGED <<handlers, vinst, kidServed>>
    /\ UNCHANGED adminVars
    /\ UNCHANGED async_lru

\* The key set a caller tests the kid against: the dictionary its own await
\* returned (the local public_keys), not what the shared slot holds now.
KeysSeenInSlot(local, slot) == slot.keys
KeysSeen(local, slot) == local

\* `if kid not in public_keys:` after the first lookup clears the cache and
\* looks up again; after the second lookup it raises.
CheckKid(t) ==
    /\ t \in vactive
    /\ vpc[t] \in {"have1", "have2"}
    /\ IF vtok[t].kid \in KeysSeen(vkeys[t], jcache) THEN
            /\ vpc' = [vpc EXCEPT ![t] = "decode"]
            /\ UNCHANGED <<jcache, vlog, vOut>>
       ELSE IF MayRefresh(IF vpc[t] = "have1" THEN 1 ELSE 2) THEN
            /\ jcache' = NoKeys
            /\ vlog' = [vlog EXCEPT ![t] = Append(@, JClear)]
            /\ vpc' = [vpc EXCEPT ![t] = "keys2"]
            /\ UNCHANGED vOut
       ELSE
            /\ vpc' = [vpc EXCEPT ![t] = "done"]
            /\ vOut' = [vOut EXCEPT ![t] = VOut(VerifyExcept(KeyNotFound), {})]
            /\ UNCHANGED <<jcache, vlog>>
    /\ UNCHANGED <<upstream, jfetching, lastFetched, vactive, vtok, vroles, vkeys,
                   vwait, jcacheAtCall>>
    /\ UNCHANGED <<handlers, vinst, kidServed>>
    /\ UNCHANGED adminVars
    /\ UNCHANGED async_lru

\* jwt.decode reads the token (what is wrong with it becomes known, and, when
\* nothing is, the roles of its payload), then the role check, then the return
\* or the raise. A payload whose role claims are not objects makes
\* payload.get(...).get / .items() raise AttributeError.
Decode(t, flaws, realm, clients, wellformed) ==
    /\ t \in vactive
    /\ vpc[t] = "decode"
    /\ flaws # {} => (realm = {} /\ clients = [c \in Clients |-> {}] /\ wellformed)
    /\ ~wellformed => (realm = {} /\ clients = [c \in Clients |-> {}])
    /\ LET tok == [vtok[t] EXCEPT !.read = TRUE, !.flaws = flaws,
                                  !.realm = realm, !.clients = clients,
                                  !.wellformed = wellformed]
       IN /\ vtok' = [vtok EXCEPT ![t] = tok]
          /\ vOut' = [vOut EXCEPT ![t] = DecodeAndAuthorize(tok, vroles[t])]
    /\ vpc' = [vpc EXCEPT ![t] = "done"]
    /\ UNCHANGED <<upstream, jcache, jfetching, lastFetched, vactive, vroles, vkeys,
                   vwait, vlog, jcacheAtCall>>
    /\ UNCHANGED <<handlers, vinst, kidServed>>
    /\ UNCHANGED adminVars
    /\ UNCHANGED async_lru

\* Keycloak rotates its signing keys: the JWKS endpoint serves another set.
RotateKeys(K) ==
    /\ vactive # {}
    /\ K # upstream
    /\ upstream' = K
    /\ kidServed' = [t \in Tasks |->
                        IF vpc[t] \in {"idle", "done"} THEN kidServed[t]
                        ELSE kidServed[t] /\ vtok[t].kid \in K]
    /\ UNCHANGED <<handlers, vinst>>
    /\ UNCHANGED <<jcache, jfetching, lastFetched, vactive, vpc, vtok, vroles, vkeys,
                   vwait, vlog, jcacheAtCall, vOut>>
    /\ UNCHANGED adminVars
    /\ UNCHANGED async_lru

InitVerify == IdleTasks({}) /\ VerifierIdle({1}) /\ Installed

NextVerify ==
    \/ \E t \in Tasks, h \in Handlers, tok \in TokenInputs, r \in RoleArgs :
          VerifyCall(t, h, tok, r)
    \/ \E t \in Tasks : _get_public_keys(t)
    \/ \E o \in Tasks : JwksResponds(o)
    \/ \E o \in Tasks, x \in JwksFailures : JwksFails(o, x)
    \/ \E t \in Tasks : FetchRaised(t)
    \/ \E t \in Tasks : CheckKid(t)
    \/ \E t \in Tasks :
          /\ vpc[t] = "decode"
          /\ \E flaws \in SUBSET Flaws, realm \in SUBSET Roles,
                clients \in [Clients -> SUBSET Roles], w \in BOOLEAN :
                    Decode(t, flaws, realm, clients, w)
    \/ \E K \in SUBSET Kids : RotateKeys(K)

SpecVerify == InitVerify /\ [][NextVerify]_vars

\* Concurrent callers of the KeycloakAdmin singleton: every task interleaves
\* at the await points; the token endpoint grants or, while it has issued no
\* more than MaxIssuedAtFailure tokens, answers 500; the management endpoint
\* answers 200 or 401.
MaxIssuedAtFailure == 1
InitConc == IdleTasks(Tasks) /\ VerifierIdle({}) /\ Installed
NextConc ==
    \/ \E t \in Tasks : \E o \in {"get_user_info", "_get_admin_token"} : Call(t, o)
    \/ \E t \in Tasks : _clear_token_cache(t)
    \/ \E t \in Tasks : _get_admin_token(t)
    \/ \E o \in Tasks : TokenEndpointGrants(o)
    \/ \E o \in Tasks :
          issued <= MaxIssuedAtFailure /\ TokenFetchFails(o, "ClientResponseError", 500)
    \/ \E t \in Tasks : TokenCallEnds(t)
    \/ \E t \in Tasks : TokenFetchRaised(t)
    \/ \E t \in Tasks : SendRequest(t)
    \/ \E t \in Tasks : \E s \in {200, 401} : MgmtResponds(t, s, TRUE)
SpecConc == InitConc /\ [][NextConc]_vars

\* Concurrent executor calls while one token has gone stale: the token endpoint
\* always grants, the management endpoint rejects the first token issued (401)
\* and accepts every token issued after it.
IsStale(k) == k = 1
LastSent(t) == log[t][Len(log[t])].tok
MgmtJudgesToken(t) ==
    /\ pc[t] = "await_resp"
    /\ MgmtResponds(t, IF IsStale(LastSent(t)) THEN 401 ELSE 200, TRUE)
NextStale ==
    \/ \E t \in Tasks : Call(t, "get_user_info")
    \/ \E t \in Tasks : _get_admin_token(t)
    \/ \E o \in Tasks : TokenEndpointGrants(o)
    \/ \E t \in Tasks : SendRequest(t)
    \/ \E t \in Tasks : MgmtJudgesToken(t)
SpecStale == InitConc /\ [][NextStale]_vars

\* Concurrent verify_token callers of one handler, racing on the key cache
\* while Keycloak adds and retires a key: the JWKS endpoint answers every request,
\* the tokens carry a kid and are otherwise valid, no roles are required.
InitVerifyConc == IdleTasks({}) /\ VerifierIdle(Tasks) /\ Installed
NextVerifyConc ==
    \/ \E t \in Tasks, k \in Kids :
          VerifyCall(t, "security", Token(TRUE, k), RolesArg(FALSE, {}))
    \/ \E t \in Tasks : _get_public_keys(t)
    \/ \E o \in Tasks : JwksResponds(o)
    \/ \E t \in Tasks : CheckKid(t)
    \/ \E t \in Tasks : Decode(t, {}, {}, [c \in Clients |-> {}], TRUE)
    \/ \E K \in {{"k1"}, Kids} : RotateKeys(K)
SpecVerifyConc == InitVerifyConc /\ [][NextVerifyConc]_vars

\* The two KeycloakJWTHandler instances of the application
\* (security.keycloak_jwt_handler, AuthService.jwt_handler) called one after
\* another, with a JWKS endpoint that answers and serves the same keys.
InitShared == IdleTasks({}) /\ VerifierIdleOn({1}, Handlers) /\ Installed
NextShared ==
    \/ \E t \in Tasks, h \in Handlers, k \in Kids :
          VerifyCall(t, h, Token(TRUE, k), RolesArg(FALSE, {}))
    \/ \E t \in Tasks : _get_public_keys(t)
    \/ \E o \in Tasks : JwksResponds(o)
    \/ \E t \in Tasks : CheckKid(t)
    \/ \E t \in Tasks, flaws \in SUBSET Flaws :
          Decode(t, flaws, {}, [c \in Clients |-> {}], TRUE)
SpecShared == InitShared /\ [][NextShared]_vars

\* The auth core: in a behaviour either the admin operations or verify_token
\* are called, one caller at a time.
InitCore == Init \/ InitVerify
NextCore == NextOps \/ NextVerify
SpecCore == InitCore /\ [][NextCore]_vars

\* ------------------------------------------ KeycloakJWTHandler: claims
IsJGet(e) == e.e = "jwks_get"
IsJClear(e) == e.e = "cache_clear"
IsJError(e) == e.e = "jwks_error"
JGets(t) == Len(SelectSeq(vlog[t], IsJGet))
JClears(t) == Len(SelectSeq(vlog[t], IsJClear))
JErrors(t) == Len(SelectSeq(vlog[t], IsJError))
\* Key lookups of t's call that raised: a fetch the call awaited failed, or a
\* failure kept in the slot was raised again.
IsJHitExc(e) == e.e = "hit_exc"
JFailures(t) == JErrors(t) + Len(SelectSeq(vlog[t], IsJHitExc))
VDone(t) == t \in vactive /\ vpc[t] = "done"
HasKid(t) == vtok[t].decodable /\ vtok[t].kid # ""
\* The slot held a finished key set of t's instance when the call began.
UsableAtCall(t) ==
    jcacheAtCall[t].st = "done" /\ jcacheAtCall[t].inst = vinst[t]
\* The kid of t's token was not in the cached key set when the call began.
KidUnknownAtCall(t) ==
    HasKid(t) /\ (UsableAtCall(t) => vtok[t].kid \notin jcacheAtCall[t].keys)
NotFoundRaised(t) ==
    VDone(t) /\ vOut[t].out.detail = "Public key not found for token"

\* C13 as stated: a verify_token call for a token whose kid is not in the
\* cached key set sends exactly one request to the JWKS endpoint, whatever
\* the cache held when the call began (an empty cache included).
C13_ExactlyOneJwksRequest ==
    \A t \in Tasks :
        (VDone(t) /\ KidUnknownAtCall(t) /\ JFailures(t) = 0) => JGets(t) = 1

\* C13: one verify_token call clears the key cache at most once and sends at
\* most two JWKS requests: at most one when the cache held a key set at the
\* start, exactly one then if the kid was missing from it and no lookup raised;
\* a kid still missing ends in AuthInvalidSessionException (401, "Public key
\* not found for token") after exactly one cache_clear, with one request from
\* a populated cache and two from an empty one.
C13_BoundedRefresh ==
    \A t \in Tasks :
        /\ JClears(t) <= 1
        /\ JGets(t) <= 2
        /\ UsableAtCall(t) => JGets(t) <= 1
        /\ (VDone(t) /\ KidUnknownAtCall(t) /\ JFailures(t) = 0
            /\ UsableAtCall(t)) => (JGets(t) = 1 /\ JClears(t) = 1)
        /\ NotFoundRaised(t)
           => /\ vOut[t].out.exc = "AuthInvalidSessionException"
              /\ vOut[t].out.status = 401
              /\ vtok[t].kid \notin vkeys[t]
              /\ JClears(t) = 1
              /\ JGets(t) = (IF UsableAtCall(t) THEN 1 ELSE 2)

\* The cache held keys, the token's kid was not among them nor in the refreshed
\* set: one refresh, then the failure.
C13_Witness ==
    \E t \in Tasks :
        /\ NotFoundRaised(t)
        /\ UsableAtCall(t)
        /\ JClears(t) = 1 /\ JGets(t) = 1

\* A token jwt.decode accepted (signature, expiry, issuer, audience all valid)
\* with a payload of the expected shape.
Authentic(t) ==
    VDone(t) /\ vtok[t].read /\ vtok[t].flaws = {} /\ vtok[t].wellformed

\* C14: with a non-empty list of required roles, an authentic token is
\* accepted exactly when one required role is among the realm roles or the
\* roles of any client; otherwise AuthForbiddenException (403).
C14_AnyOfUnionOfRoles ==
    \A t \in Tasks :
        (Authentic(t) /\ vroles[t].given /\ vroles[t].list # {})
        => LET has == vroles[t].list \cap
                        (vtok[t].realm \cup vtok[t].clients["c1"]
                                       \cup vtok[t].clients["c2"]) # {}
           IN /\ (vOut[t].out.kind = "return") <=> has
              /\ ~has => (vOut[t].out.exc = "AuthForbiddenException"
                          /\ vOut[t].out.status = 403)

\* Required role admin, held only through the second client: accepted.
C14_Witness ==
    \E t \in Tasks :
        /\ Authentic(t)
        /\ vroles[t] = RolesArg(TRUE, {"admin"})
        /\ vtok[t].realm = {"user"}
        /\ vtok[t].clients["c1"] = {}
        /\ vtok[t].clients["c2"] = {"admin"}
        /\ vOut[t].out.kind = "return"

\* C15: with roles None or an empty list no role check is made: every
\* authentic token is accepted.
C15_NoRolesNoCheck ==
    \A t \in Tasks :
        (Authentic(t) /\ (~vroles[t].given \/ vroles[t].list = {}))
        => vOut[t].out = Returned(0, "payload")

\* roles = [] (require_any_role() with no names) and a token without any role.
C15_Witness ==
    \E t \in Tasks :
        /\ Authentic(t)
        /\ vroles[t] = RolesArg(TRUE, {})
        /\ vtok[t].realm = {}
        /\ \A c \in Clients : vtok[t].clients[c] = {}
        /\ vOut[t].out.kind = "return"

\* The failure mode of a finished call, "" when it is none of the six.
FailureMode(t) ==
    IF ~VDone(t) \/ ~vtok[t].decodable THEN ""
    ELSE IF vtok[t].kid = "" THEN "missing_kid"
    ELSE IF NotFoundRaised(t) THEN "unknown_key"
    ELSE IF ~vtok[t].read THEN ""
    ELSE IF vtok[t].flaws = {"exp"} THEN "exp"
    ELSE IF vtok[t].flaws = {"aud"} THEN "aud"
    ELSE IF vtok[t].flaws = {"iss"} THEN "iss"
    ELSE IF vtok[t].flaws = {"sig"} THEN "sig"
    ELSE ""
FailureModes == {"missing_kid", "unknown_key", "exp", "aud", "iss", "sig"}
\* The exception class verify_token raises for a failure mode.
KindFor(m) ==
    IF m = "missing_kid" THEN VerifyExcept(HeaderCheck(Token(TRUE, ""))).exc
    ELSE IF m = "unknown_key" THEN VerifyExcept(KeyNotFound).exc
    ELSE DecodeAndAuthorize([Token(TRUE, "k1") EXCEPT !.read = TRUE, !.flaws = {m}],
                            RolesArg(FALSE, {})).out.exc

\* C16 as stated: no two of the six failure modes raise the same error kind.
C16_ModesHaveDistinctKinds ==
    \A t \in Tasks :
        FailureMode(t) # ""
        => \A m \in FailureModes \ {FailureMode(t)} : vOut[t].out.exc # KindFor(m)

\* C16: an expired token raises AuthTokenExpiredException, a wrong audience
\* AuthInvalidAudienceException, and a missing kid, an unknown key, a wrong
\* issuer and a bad signature all raise AuthInvalidSessionException, told
\* apart only by the detail text (the bad signature has the generic one).
C16_ThreeKinds ==
    \A t \in Tasks :
        LET m == FailureMode(t)
            o == vOut[t].out
        IN /\ m = "exp" => o.exc = "AuthTokenExpiredException"
           /\ m = "aud" => o.exc = "AuthInvalidAudienceException"
           /\ m \in {"missing_kid", "unknown_key", "iss", "sig"}
              => o.exc = "AuthInvalidSessionException"
           /\ m = "missing_kid" => o.detail = "Token missing key ID"
           /\ m = "unknown_key" => o.detail = "Public key not found for token"
           /\ m = "iss" => o.detail = "Token issuer is invalid"
           /\ m = "sig" => o.detail = "Invalid token"

\* A wrong issuer ends in the class a missing kid ends in.
C16_Witness ==
    \E t \in Tasks :
        /\ FailureMode(t) = "iss"
        /\ vOut[t].out.exc = "AuthInvalidSessionException"
        /\ vOut[t].out.exc = KindFor("missing_kid")

\* C17: a token that cannot be decoded, or whose header has no kid, fails with
\* AuthInvalidSessionException (401) before any key lookup: the call sends no
\* JWKS request and leaves the key cache as it was.
C17_MalformedBeforeKeyResolution ==
    \A t \in Tasks :
        ((t \in vactive /\ vpc[t] # "idle") /\ ~HasKid(t))
        => /\ vpc[t] = "done"
           /\ vOut[t].out.kind = "raise"
           /\ vOut[t].out.exc = "AuthInvalidSessionException"
           /\ vOut[t].out.status = 401
           /\ vlog[t] = << >>
           /\ jcache = jcacheAtCall[t]

\* A header without kid while a key set is cached.
C17_Witness ==
    \E t \in Tasks :
        /\ VDone(t)
        /\ vtok[t] = Token(TRUE, "")
        /\ jcacheAtCall[t].st = "done"
        /\ vlog[t] = << >>
        /\ vOut[t].out.status = 401

\* C18: the cached key set is exactly the set the latest successful JWKS fetch
\* was served, and the keys a call holds are exactly that set: nothing of an
\* older set survives a refresh.
C18_WholeSetReplaced ==
    /\ jcache.st = "done" => (lastFetched.any /\ jcache.keys = lastFetched.served)
    /\ \A t \in Tasks :
          (t \in vactive /\ vpc[t] \in {"have1", "have2", "decode"})
          => vkeys[t] = lastFetched.served

\* The cache held {k1}; a token with kid k2 forced a refresh that was served
\* {k2}: k1 is gone from the cache.
C18_Witness ==
    \E t \in Tasks :
        /\ t \in vactive
        /\ jcacheAtCall[t] = KeysCached({"k1"}, "security")
        /\ JClears(t) = 1
        /\ jcache = KeysCached({"k2"}, "security")
        /\ vpc[t] = "decode"

\* C19: a JWKS fetch that fails ends the call with
\* AuthServerUnavailableException (503): nothing follows the failure in the
\* call, no further fetch, no 401, no return.
C19_FetchFailureSurfaced ==
    \A t \in Tasks :
        JErrors(t) > 0
        => /\ JErrors(t) = 1
           /\ vlog[t][Len(vlog[t])] = JError
           /\ vpc[t] \in {"fetch_raised", "done"}
           /\ vOut[t].out.kind = "raise"
           /\ VDone(t) => (vOut[t].out.exc = "AuthServerUnavailableException"
                           /\ vOut[t].out.status = 503)

\* The forced refresh failed.
C19_Witness ==
    \E t \in Tasks :
        /\ VDone(t)
        /\ Len(vlog[t]) = 4
        /\ vlog[t][2] = JClear /\ vlog[t][3] = JGet /\ vlog[t][4] = JError
        /\ vOut[t].out.status = 503

\* C20: every authentication failure of verify_token (a call whose key
\* lookups did not raise) is a 401 with WWW-Authenticate: Bearer, and the
\* authorization failure is a 403 whose detail lists the required roles.
C20_AuthFailuresAre401WithHeader ==
    \A t \in Tasks :
        (VDone(t) /\ vOut[t].out.kind = "raise" /\ JFailures(t) = 0
         /\ vtok[t].wellformed)
        => IF Authentic(t)
           THEN /\ vOut[t].out.status = 403
                /\ vOut[t].named = vroles[t].list
                /\ vOut[t].named # {}
           ELSE /\ vOut[t].out.status = 401
                /\ vOut[t].out.www

\* A wrong issuer: 401 with the header.
C20_Witness ==
    \E t \in Tasks :
        /\ VDone(t)
        /\ vtok[t].read /\ vtok[t].flaws = {"iss"}
        /\ vOut[t].out.status = 401
        /\ vOut[t].out.www

\* ------------------------------------------------ both components: claims
\* C21: whatever leaves verify_token, get_user_info, update_user_info or
\* assign_role_to_user is an AuthException; an exception that is not one
\* (raised in the operation or in the retry executor) leaves as
\* AuthException 500 with a new correlation id in its detail; a verification
\* that failed returns no payload.
C21_OnlyTypedErrorsEscape ==
    \A t \in Tasks :
        /\ (op[t] \in ExecutorOps /\ pc[t] = "done" /\ opOut[t].kind = "raise")
           => /\ IsAuthException(opOut[t].exc)
              /\ (execOut[t].kind = "raise" /\ ~IsAuthException(execOut[t].exc))
                 => (opOut[t].exc = "AuthException" /\ opOut[t].status = 500
                     /\ opOut[t].error_id)
        /\ (op[t] = "update_user_info" /\ pc[t] = "done" /\ Len(oplog[t]) = 1
            /\ oplog[t][1].out.kind = "return" /\ oplog[t][1].out.data = "None")
           => (opOut[t].exc = "AuthException" /\ opOut[t].status = 500
               /\ opOut[t].error_id)
        /\ VDone(t)
           => /\ vOut[t].out.kind \in {"return", "raise"}
              /\ vOut[t].out.kind = "raise" => IsAuthException(vOut[t].out.exc)
              /\ (vtok[t].read /\ ~vtok[t].wellformed /\ RoleCheckApplies(vroles[t]))
                 => (vOut[t].out.exc = "AuthException" /\ vOut[t].out.status = 500
                     /\ vOut[t].out.error_id)
              /\ (~HasKid(t) \/ JFailures(t) > 0 \/ NotFoundRaised(t)
                  \/ (vtok[t].read /\ vtok[t].flaws # {}))
                 => vOut[t].out.kind = "raise"

\* The TypeError raised by the executor's except clause leaves
\* assign_role_to_user as AuthException 500 with a correlation id.
C21_Witness ==
    \E t \in Tasks :
        /\ op[t] = "assign_role_to_user" /\ pc[t] = "done"
        /\ execOut[t].exc = "TypeError"
        /\ opOut[t].exc = "AuthException" /\ opOut[t].status = 500
        /\ opOut[t].error_id

\* --------------------------------------------- concurrent callers: claims
\* A token the token endpoint has issued in full.
Issued(k) == k \in 1..issued
ObtainsToken(e) == e.e \in {"hit", "token"}

\* C22: with tasks interleaving _get_admin_token, _clear_token_cache and the
\* executor, the cache slot holds nothing, one in-flight fetch, the failure
\* of a finished fetch (no token) or one issued token; every token a caller
\* obtains (from the cache or from the fetch it awaited) is an issued one, and every request is sent with the token the
\* caller obtained just before.
C22_OnlyIssuedTokens ==
    /\ cache.st \in {"empty", "pending", "failed", "done"}
    /\ cache.st = "done" => Issued(cache.tok)
    /\ cache.st # "done" => cache.tok = 0
    /\ \A t \in Tasks :
          /\ delivered[t].ok => Issued(delivered[t].tok)
          /\ \A i \in 1..Len(log[t]) :
                /\ ObtainsToken(log[t][i]) => Issued(log[t][i].tok)
                /\ log[t][i].e = "send"
                   => /\ Issued(log[t][i].tok)
                      /\ i > 1
                      /\ ObtainsToken(log[t][i - 1])
                      /\ log[t][i - 1].tok = log[t][i].tok
          /\ (op[t] = "_get_admin_token" /\ pc[t] = "done"
              /\ opOut[t].kind = "return") => Issued(opOut[t].tok)

\* Two callers are in the executor at once: one sent the token it was handed
\* by its own fetch after the other's 401 cleared the cache, while the other
\* holds a newer token.
C22_Witness ==
    \E t \in Tasks, u \in Tasks :
        /\ t # u
        /\ InExecutor(t) /\ InExecutor(u)
        /\ pc[t] = "await_resp" /\ pc[u] = "await_resp"
        /\ attempt[u] = 1
        /\ log[t][Len(log[t])].tok # log[u][Len(log[u])].tok
        /\ cache.st = "done"

\* C27: when the token endpoint always grants and only the stale token is
\* rejected, every concurrent executor call succeeds, after at most one
\* rejection, whatever the other callers clear: none ends with
\* AuthTokenExpiredException.
C27_EveryCallSucceeds ==
    \A t \in Tasks :
        InExecutor(t)
        => /\ attempt[t] <= 1
           /\ Len(MgmtResps(t)) <= 2
           /\ pc[t] = "done"
              => (execOut[t].kind = "return" /\ execOut[t].status = 200
                  /\ opOut[t].kind = "return")

\* A caller's clear dropped a token that was not the stale one, and all
\* callers have succeeded, one of them on its second attempt.
C27_Witness ==
    /\ \E k \in evicted : ~IsStale(k)
    /\ \A t \in Tasks : ExecDone(t) /\ execOut[t].kind = "return"
    /\ \E t \in Tasks : attempt[t] = 1

\* C25 as stated: a verify_token call for a kid that is in the key set the
\* call's instance fetched last answers its first key lookup from the cache:
\* it is never waiting for a JWKS request of its own on that lookup, whatever
\* calls were made on the other instance in between.
C25_NoRequestForKnownKid ==
    \A t \in Tasks :
        ~(/\ vpc[t] = "await1"
          /\ vwait[t] = t
          /\ jfetching[t]
          /\ vtok[t].kid \in lastFetched.by[vinst[t]])

\* C23: with concurrent callers clearing and refetching the key cache, a
\* verify_token call whose token's kid the JWKS endpoint serves from the
\* start of the call to its end never fails with "Public key not found" and
\* ends by returning the payload; a caller that refreshed tests the kid
\* against the key set its own await delivered.
C23_ServedKidAlwaysResolves ==
    \A t \in Tasks :
        /\ (VDone(t) /\ kidServed[t]) => vOut[t].out.kind = "return"
        /\ NotFoundRaised(t) => ~kidServed[t]
        /\ (vpc[t] = "decode" /\ kidServed[t]) => vtok[t].kid \in vkeys[t]
        /\ JClears(t) <= 1 /\ JGets(t) <= 2

\* A caller fetched the key set and, before it tested its kid, the other
\* caller (whose kid is not served) cleared the slot; the first caller's kid
\* was found in the key set it holds.
C23_Witness ==
    \E t \in Tasks, u \in Tasks :
        /\ t # u
        /\ vpc[t] = "decode" /\ kidServed[t]
        /\ vlog[t] = <<JGet, JKeys(vkeys[t])>>
        /\ vpc[u] = "keys2" /\ JClears(u) = 1
        /\ jcache = NoKeys

\* C26: verify_token raises the 403 of the role check only for a token that
\* jwt.decode accepted (signature, expiry, issuer and audience all valid) and
\* that lacks every required role; a token that jwt.decode rejects ends in
\* the 401 of its flaw even when it lacks the required role, and a call that
\* never reached jwt.decode never ends in 403.
C26_AuthenticityBeforeAuthorization ==
    \A t \in Tasks :
        VDone(t)
        => /\ vOut[t].out.status = 403
              => /\ Authentic(t)
                 /\ RoleCheckApplies(vroles[t])
                 /\ ~HasAnyRole(vroles[t], vtok[t])
                 /\ vOut[t].out.exc = "AuthForbiddenException"
           /\ (vtok[t].read /\ vtok[t].flaws # {})
              => (vOut[t].out.kind = "raise" /\ vOut[t].out.status = 401)
           /\ ~vtok[t].read => vOut[t].out.status # 403

\* An expired, wrongly signed token presented where the role admin is
\* required, which the token does not carry: 401.
C26_Witness ==
    \E t \in Tasks :
        /\ VDone(t)
        /\ vtok[t].read /\ vtok[t].flaws = {"sig", "exp"}
        /\ vroles[t] = RolesArg(TRUE, {"admin"})
        /\ ~HasAnyRole(vroles[t], vtok[t])
        /\ vOut[t].out.status = 401
        /\ vOut[t].out.exc # "AuthForbiddenException"

\* The executor calls assign_role_to_user has finished, and whether it is
\* inside its second one.
RoleCalls(t) == oplog[t]
PostUnderWay(t) ==
    op[t] = "assign_role_to_user" /\ Len(oplog[t]) = 1 /\ pc[t] \notin {"done", "idle"}

\* C28: assign_role_to_user first GETs the role (realm or client URL by
\* client_id) and only when that call returned POSTs [role] to the matching
\* role-mapping URL with the representation the GET returned; when the GET
\* raised, the operation ends at once with that error (typed at the outer
\* boundary) and no second request; it returns True only after the POST
\* answered 200 or 204.
C28_GetThenPost ==
    \A t \in Tasks :
        op[t] = "assign_role_to_user"
        => LET c == RoleCalls(t) IN
           /\ Len(c) <= 2
           /\ Len(c) >= 1
              => c[1].req = Req("GET", IF arg[t].client THEN "client_role_detail_url"
                                       ELSE "realm_role_url", "")
           /\ PostUnderWay(t) => c[1].out.kind = "return"
           /\ Len(c) = 2
              => /\ c[1].out.kind = "return"
                 /\ c[2].req = Req("POST",
                                   IF arg[t].client THEN "client_role_mapping_url"
                                   ELSE "realm_role_mapping_url",
                                   c[1].out.data)
                 /\ pc[t] = "done"
           /\ (pc[t] = "done" /\ c[1].out.kind = "raise")
              => /\ Len(c) = 1
                 /\ opOut[t] = OuterBoundary(c[1].out)
                 /\ opOut[t].kind = "raise"
           /\ (pc[t] = "done" /\ opOut[t].kind = "return")
              => /\ opOut[t] = ReturnedTrue
                 /\ Len(c) = 2
                 /\ c[2].out.kind = "return"
                 /\ c[2].out.status \in {200, 204}

\* A client role was assigned: the GET returned the role, the POST carried
\* it to the client role-mapping URL and was answered 204.
C28_Witness ==
    \E t \in Tasks :
        /\ op[t] = "assign_role_to_user" /\ pc[t] = "done"
        /\ arg[t].client
        /\ opOut[t] = ReturnedTrue
        /\ Len(oplog[t]) = 2
        /\ oplog[t][1].out.status = 200
        /\ oplog[t][2].req = Req("POST", "client_role_mapping_url", oplog[t][1].out.data)
        /\ oplog[t][2].out.status = 204

\* The role does not exist: the GET ended with AuthException 404 and the
\* operation ended with it after that one call.
C28_WitnessGetFailed ==
    \E t \in Tasks :
        /\ op[t] = "assign_role_to_user" /\ pc[t] = "done"
        /\ Len(oplog[t]) = 1
        /\ oplog[t][1].out.kind = "raise" /\ oplog[t][1].out.status = 404
        /\ opOut[t].status = 404

\* C29 as stated: every request revoke_role_from_user sends is a DELETE that
\* goes to the realm role-mapping URL of the user when client_id is None and
\* to the client's role-mapping URL when a client id is given, never to a
\* client role-mapping URL built from a missing client id.
C29_RevokeMirrorsAssign ==
    \A t \in Tasks : \A i \in DOMAIN log[t] :
        (op[t] = "revoke_role_from_user" /\ IsSend(log[t][i]))
        => /\ LegacyRequestOf(op[t], arg[t], << >>).method = "DELETE"
           /\ log[t][i].src = IF arg[t].client THEN "client_role_mapping_url"
                              ELSE "realm_role_mapping_url"

====
